---------------------------- MODULE Spec2Model ----------------------------
(***************************************************************************)
(* A model of scripts/auto_edit_gemini_cli.py: the structured-data         *)
(* extractor, the match sanitizer and its deterministic fallback, the      *)
(* caption time codec, the material-analysis cache and the matching phase. *)
(*                                                                         *)
(* Text is a sequence of one-character strings.  Pure functions are        *)
(* operators; each has a specification that draws its inputs in Init and   *)
(* applies it in an action.                                                *)
(***************************************************************************)
EXTENDS Integers, Sequences, FiniteSets, TLC

VARIABLES
    \* _extract_json_from_text: the parts of the input text and the result
    pre, body, post, extracted,
    \* the outcome of _find_span on the chosen text, as Extract saw it
    span,
    \* _sanitize_matches: its arguments and what it returned
    matches, allowed_transitions, max_material_id, allow_reuse, out,
    \* the list after the fallback of gemini_match_srt_to_materials
    final,
    \* the caption codec: a time string, its parsed value, the value formatted
    tstr, seconds, formatted,
    \* analyze_materials_with_gemini.  The environment: the files'
    \* modification times, material_analysis.json, the visual proxies on disk
    mtime, cache_file, proxies,
    \* one run: where it is, its arguments (force, and the paths still to
    \* analyze), the in-memory mapping, the probe and the analysis of the
    \* material in hand, the records collected
    pc, force, material_paths, todo, cache, probe, vision_image, analysis, results,
    \* history: runs started, the mapping as last written in full, and per
    \* path the lookups completed and the compute steps invoked since the
    \* file last changed, and whether a forced lookup intervened
    runs, written, lookups, computes, forced,
    \* gemini_match_srt_to_materials: srt_matches.json, srt_matches_raw.txt,
    \* where a call is, its arguments, what it returned, the calls made
    match_file, raw_file, match_pc, match_args, returned, match_runs,
    \* parse_srt_content: the stripped lines of the input, the loop index
    \* (the 1-based position of lines[i]), the items collected, how it ended
    srt_lines, srt_i, srt_items, srt_pc,
    \* run_gemini_cli: where the call is, its output_format argument, the
    \* temporary file of stdin_text, the attempt in hand (1-based), the
    \* wait before the next retry, the outcomes of the attempts made so far,
    \* the waits slept so far
    bridge_pc, output_format, stdin_file, attempt, sleep_s, attempts_made, waits,
    \* the model stage of one material (lines 471-542): whether a vision
    \* model is forced, where the stage is, the calls made so far, the tags
    \* and description it ends with, whether analysis_raw_last.txt was written
    vision_model, stage, model_calls, outcome, raw_last

extractVars == <<pre, body, post, extracted, span>>
sanitizeVars ==
    <<matches, allowed_transitions, max_material_id, allow_reuse, out, final>>
codecVars == <<tstr, seconds, formatted>>
envVars == <<mtime, cache_file, proxies>>
runVars == <<pc, force, material_paths, todo, cache, probe, vision_image, analysis, results>>
histVars == <<runs, written, lookups, computes, forced>>
analyzeVars == <<envVars, runVars, histVars>>
matchVars == <<match_file, raw_file, match_pc, match_args, returned, match_runs>>
srtVars == <<srt_lines, srt_i, srt_items, srt_pc>>
bridgeVars ==
    <<bridge_pc, output_format, stdin_file, attempt, sleep_s, attempts_made, waits>>
modelVars == <<vision_model, stage, model_calls, outcome, raw_last>>
vars == <<extractVars, sanitizeVars, codecVars, analyzeVars, matchVars, srtVars, bridgeVars, modelVars>>

Pending == [pending |-> TRUE]

(***************************************************************************)
(* Sequence helpers (Python str methods)                                   *)
(***************************************************************************)
Drop(s, n) == SubSeq(s, n + 1, Len(s))

IsWs(c) == c \in {" ", "\n", "\t", "\r"}

RECURSIVE LStrip(_)
LStrip(s) == IF s # <<>> /\ IsWs(Head(s)) THEN LStrip(Tail(s)) ELSE s

RECURSIVE RStrip(_)
RStrip(s) ==
    IF s # <<>> /\ IsWs(s[Len(s)]) THEN RStrip(SubSeq(s, 1, Len(s) - 1)) ELSE s

Strip(s) == RStrip(LStrip(s))

LowerCh(c) ==
    CASE c = "J" -> "j" [] c = "S" -> "s" [] c = "O" -> "o" [] c = "N" -> "n"
      [] OTHER -> c

StartsWithJson(s) ==
    /\ Len(s) >= 4
    /\ <<LowerCh(s[1]), LowerCh(s[2]), LowerCh(s[3]), LowerCh(s[4])>>
         = <<"j", "s", "o", "n">>

\* the backquote character (written BQ: the one-character string of a
\* backquote is not accepted by the parser)
Backquote == "BQ"

FENCE == <<Backquote, Backquote, Backquote>>

FenceAt(s, i) == i + 2 <= Len(s) /\ SubSeq(s, i, i + 2) = FENCE

\* the least index >= 1 where FENCE occurs in s, or 0
FindFence(s) ==
    IF \E i \in 1..Len(s) : FenceAt(s, i)
    THEN CHOOSE i \in 1..Len(s) :
            FenceAt(s, i) /\ \A j \in 1..(i - 1) : ~FenceAt(s, j)
    ELSE 0

\* text.split(FENCE)
RECURSIVE SplitFence(_)
SplitFence(s) ==
    LET j == FindFence(s)
    IN  IF j = 0 THEN <<s>>
        ELSE <<SubSeq(s, 1, j - 1)>> \o SplitFence(Drop(s, j + 2))

HasOpener(s) == \E i \in 1..Len(s) : s[i] \in {"{", "["}

RECURSIVE StripNonEmpty(_)
StripNonEmpty(cs) ==
    IF cs = <<>> THEN <<>>
    ELSE (IF Strip(Head(cs)) # <<>> THEN <<Strip(Head(cs))>> ELSE <<>>)
            \o StripNonEmpty(Tail(cs))

\* chunks[1], chunks[3], ... (0-based), i.e. the 1-based even positions
OddChunks(cs) ==
    LET RECURSIVE pick(_)
        pick(i) == IF i > Len(cs) THEN <<>> ELSE <<cs[i]>> \o pick(i + 2)
    IN  pick(2)

\* key (has an opener, length), compared as Python compares tuples
KeyLess(a, b) ==
    \/ ~HasOpener(a) /\ HasOpener(b)
    \/ HasOpener(a) = HasOpener(b) /\ Len(a) < Len(b)

\* candidates.sort(key=..., reverse=True); candidates[0]: the stable sort
\* keeps equal keys in their order, so the first maximal candidate wins
BestCandidate(cands) ==
    IF cands = <<>> THEN <<>>
    ELSE LET i == CHOOSE k \in 1..Len(cands) :
                    /\ \A j \in 1..Len(cands) : ~KeyLess(cands[k], cands[j])
                    /\ \A j \in 1..(k - 1) : KeyLess(cands[j], cands[k])
         IN  cands[i]

StripLanguageHint(t) ==
    IF StartsWithJson(LStrip(t)) THEN Strip(Drop(LStrip(t), 4)) ELSE t

\* lines 66-82: the text the scan runs on
ChooseText(raw) ==
    LET t == Strip(raw)
    IN  IF FindFence(t) = 0 THEN t
        ELSE LET chunks == SplitFence(t)
                 fenced == StripNonEmpty(OddChunks(chunks))
                 cands  == IF fenced # <<>> THEN fenced ELSE StripNonEmpty(chunks)
             IN  StripLanguageHint(BestCandidate(cands))

(***************************************************************************)
(* _find_span: the balanced-delimiter scan (lines 84-127)                  *)
(***************************************************************************)
FirstOpener(s) ==
    IF HasOpener(s)
    THEN CHOOSE i \in 1..Len(s) :
            s[i] \in {"{", "["} /\ \A j \in 1..(i - 1) : s[j] \notin {"{", "["}
    ELSE 0

Closer(ch) == IF ch = "{" THEN "}" ELSE "]"

\* the scan that takes strings for ordinary text: the mutant of ScanFrom
RECURSIVE ScanIgnoringStrings(_, _, _, _, _, _)
ScanIgnoringStrings(s, start, i, stack, in_str, esc) ==
    IF i > Len(s) THEN [ok |-> FALSE, err |-> "unterminated json value"]
    ELSE LET ch == s[i]
         IN  IF ch \in {"{", "["}
             THEN ScanIgnoringStrings(s, start, i + 1, Append(stack, Closer(ch)), FALSE, FALSE)
             ELSE IF ch \in {"}", "]"} /\ stack # <<>> /\ ch = stack[Len(stack)]
             THEN IF Len(stack) = 1
                  THEN [ok |-> TRUE, start |-> start, end |-> i]
                  ELSE ScanIgnoringStrings(s, start, i + 1,
                                           SubSeq(stack, 1, Len(stack) - 1), FALSE, FALSE)
             ELSE ScanIgnoringStrings(s, start, i + 1, stack, FALSE, FALSE)

\* the scan that pops on any closer, matching or not: a mutant of ScanFrom
RECURSIVE ScanPoppingAny(_, _, _, _, _, _)
ScanPoppingAny(s, start, i, stack, in_str, esc) ==
    IF i > Len(s) THEN [ok |-> FALSE, err |-> "unterminated json value"]
    ELSE LET ch == s[i]
         IN  IF in_str
             THEN IF esc THEN ScanPoppingAny(s, start, i + 1, stack, TRUE, FALSE)
                  ELSE IF ch = "\\" THEN ScanPoppingAny(s, start, i + 1, stack, TRUE, TRUE)
                  ELSE IF ch = "\"" THEN ScanPoppingAny(s, start, i + 1, stack, FALSE, FALSE)
                  ELSE ScanPoppingAny(s, start, i + 1, stack, TRUE, FALSE)
             ELSE IF ch = "\"" THEN ScanPoppingAny(s, start, i + 1, stack, TRUE, esc)
             ELSE IF ch \in {"{", "["}
             THEN ScanPoppingAny(s, start, i + 1, Append(stack, Closer(ch)), FALSE, esc)
             ELSE IF ch \in {"}", "]"} /\ stack # <<>>
             THEN IF Len(stack) = 1
                  THEN [ok |-> TRUE, start |-> start, end |-> i]
                  ELSE ScanPoppingAny(s, start, i + 1,
                                      SubSeq(stack, 1, Len(stack) - 1), FALSE, esc)
             ELSE ScanPoppingAny(s, start, i + 1, stack, FALSE, esc)

\* lines 93-127: the loop over s[start..], with its stack of expected
\* closers and the in_str / esc flags
RECURSIVE ScanFrom(_, _, _, _, _, _)
ScanFrom(s, start, i, stack, in_str, esc) ==
    IF i > Len(s) THEN [ok |-> FALSE, err |-> "unterminated json value"]
    ELSE LET ch == s[i]
         IN  IF in_str
             THEN IF esc THEN ScanFrom(s, start, i + 1, stack, TRUE, FALSE)
                  ELSE IF ch = "\\" THEN ScanFrom(s, start, i + 1, stack, TRUE, TRUE)
                  ELSE IF ch = "\"" THEN ScanFrom(s, start, i + 1, stack, FALSE, FALSE)
                  ELSE ScanFrom(s, start, i + 1, stack, TRUE, FALSE)
             ELSE IF ch = "\"" THEN ScanFrom(s, start, i + 1, stack, TRUE, esc)
             ELSE IF ch \in {"{", "["}
             THEN ScanFrom(s, start, i + 1, Append(stack, Closer(ch)), FALSE, esc)
             ELSE IF ch \in {"}", "]"} /\ stack # <<>> /\ ch = stack[Len(stack)]
             THEN IF Len(stack) = 1
                  THEN [ok |-> TRUE, start |-> start, end |-> i]
                  ELSE ScanFrom(s, start, i + 1,
                                SubSeq(stack, 1, Len(stack) - 1), FALSE, esc)
             ELSE ScanFrom(s, start, i + 1, stack, FALSE, esc)

\* the slicing the docstring warns against: first "[" to last "]"
NaiveSpan(s) ==
    LET opens  == {i \in 1..Len(s) : s[i] = "["}
        closes == {i \in 1..Len(s) : s[i] = "]"}
    IN  IF opens = {} THEN [ok |-> FALSE, err |-> "no json start bracket found"]
        ELSE IF closes = {} THEN [ok |-> FALSE, err |-> "unterminated json value"]
        ELSE [ok |-> TRUE,
              start |-> CHOOSE i \in opens : \A j \in opens : i <= j,
              end |-> CHOOSE i \in closes : \A j \in closes : j <= i]

\* lines 97-124: one iteration of the loop, from the stack and flags before
\* the character ch to those after it
ScanStep(st, ch) ==
    IF st.in_str
    THEN IF st.esc THEN [st EXCEPT !.esc = FALSE]
         ELSE IF ch = "\\" THEN [st EXCEPT !.esc = TRUE]
         ELSE IF ch = "\"" THEN [st EXCEPT !.in_str = FALSE]
         ELSE st
    ELSE IF ch = "\"" THEN [st EXCEPT !.in_str = TRUE]
    ELSE IF ch \in {"{", "["} THEN [st EXCEPT !.stack = Append(@, Closer(ch))]
    ELSE IF ch \in {"}", "]"} /\ st.stack # <<>> /\ ch = st.stack[Len(st.stack)]
    THEN [st EXCEPT !.stack = SubSeq(@, 1, Len(@) - 1)]
    ELSE st

\* lines 93-96, then the loop up to and including position i
RECURSIVE ScanState(_, _, _)
ScanState(s, start, i) ==
    IF i < start THEN [stack |-> <<>>, in_str |-> FALSE, esc |-> FALSE]
    ELSE ScanStep(ScanState(s, start, i - 1), s[i])

FindSpan(s) ==
    LET start == FirstOpener(s)
    IN  IF start = 0
        THEN [ok |-> FALSE, err |-> "no json start bracket found"]
        ELSE ScanFrom(s, start, start, <<>>, FALSE, FALSE)

(***************************************************************************)
(* json.loads, as the recogniser of one JSON value surrounded by optional  *)
(* whitespace.  A parse position is an index into s; 0 is failure.  The    *)
(* value is reported by its kind and its canonical text (the text without  *)
(* the whitespace outside strings).  \u escapes and fractions/exponents    *)
(* are outside the alphabet of the inputs and are rejected.                *)
(***************************************************************************)
Digits == {"0", "1", "2", "3", "4", "5", "6", "7", "8", "9"}

RECURSIVE SkipWs(_, _)
SkipWs(s, i) == IF i <= Len(s) /\ IsWs(s[i]) THEN SkipWs(s, i + 1) ELSE i

\* i is just after the opening quote; the index after the closing quote
RECURSIVE StringEnd(_, _)
StringEnd(s, i) ==
    IF i > Len(s) THEN 0
    ELSE IF s[i] = "\"" THEN i + 1
    ELSE IF s[i] = "\\"
         THEN IF i + 1 <= Len(s) /\ s[i + 1] \in {"\"", "\\", "/", "b", "f", "n", "r", "t"}
              THEN StringEnd(s, i + 2) ELSE 0
    ELSE IF s[i] \in {"\n", "\t", "\r"} THEN 0
    ELSE StringEnd(s, i + 1)

RECURSIVE DigitsEnd(_, _)
DigitsEnd(s, i) == IF i <= Len(s) /\ s[i] \in Digits THEN DigitsEnd(s, i + 1) ELSE i

\* -?(0|[1-9][0-9]*)
NumberEnd(s, i) ==
    LET j == IF i <= Len(s) /\ s[i] = "-" THEN i + 1 ELSE i
    IN  IF j > Len(s) \/ s[j] \notin Digits THEN 0
        ELSE IF s[j] = "0" THEN j + 1 ELSE DigitsEnd(s, j)

LiteralEnd(s, i, word) ==
    IF i + Len(word) - 1 <= Len(s) /\ SubSeq(s, i, i + Len(word) - 1) = word
    THEN i + Len(word) ELSE 0

RECURSIVE ValueEnd(_, _), MembersEnd(_, _), ElementsEnd(_, _)
\* i is at the first character of a value; the index after the value
ValueEnd(s, i) ==
    IF i > Len(s) THEN 0
    ELSE CASE s[i] = "\"" -> StringEnd(s, i + 1)
           [] s[i] = "{" ->
                LET j == SkipWs(s, i + 1)
                IN  IF j <= Len(s) /\ s[j] = "}" THEN j + 1 ELSE MembersEnd(s, j)
           [] s[i] = "[" ->
                LET j == SkipWs(s, i + 1)
                IN  IF j <= Len(s) /\ s[j] = "]" THEN j + 1 ELSE ElementsEnd(s, j)
           [] s[i] = "t" -> LiteralEnd(s, i, <<"t", "r", "u", "e">>)
           [] s[i] = "f" -> LiteralEnd(s, i, <<"f", "a", "l", "s", "e">>)
           [] s[i] = "n" -> LiteralEnd(s, i, <<"n", "u", "l", "l">>)
           [] OTHER -> NumberEnd(s, i)

\* i is at the key of the next member; the index after the closing brace
MembersEnd(s, i) ==
    IF i > Len(s) \/ s[i] # "\"" THEN 0
    ELSE LET k == StringEnd(s, i + 1)
             c == IF k = 0 THEN 0 ELSE SkipWs(s, k)
         IN  IF k = 0 \/ c > Len(s) \/ s[c] # ":" THEN 0
             ELSE LET v == ValueEnd(s, SkipWs(s, c + 1))
                      e == IF v = 0 THEN 0 ELSE SkipWs(s, v)
                  IN  IF v = 0 \/ e > Len(s) THEN 0
                      ELSE IF s[e] = "}" THEN e + 1
                      ELSE IF s[e] = "," THEN MembersEnd(s, SkipWs(s, e + 1))
                      ELSE 0

\* i is at the next element; the index after the closing bracket
ElementsEnd(s, i) ==
    LET v == ValueEnd(s, i)
        e == IF v = 0 THEN 0 ELSE SkipWs(s, v)
    IN  IF v = 0 \/ e > Len(s) THEN 0
        ELSE IF s[e] = "]" THEN e + 1
        ELSE IF s[e] = "," THEN ElementsEnd(s, SkipWs(s, e + 1))
        ELSE 0

KindOf(ch) ==
    CASE ch = "{" -> "object" [] ch = "[" -> "array" [] ch = "\"" -> "string"
      [] ch \in {"t", "f"} -> "bool" [] ch = "n" -> "null" [] OTHER -> "number"

\* the text without the whitespace outside its strings
RECURSIVE Canon(_, _, _)
Canon(s, in_str, esc) ==
    IF s = <<>> THEN <<>>
    ELSE LET ch == Head(s)
         IN  IF in_str
             THEN <<ch>> \o Canon(Tail(s), esc \/ ch # "\"", ~esc /\ ch = "\\")
             ELSE IF IsWs(ch) THEN Canon(Tail(s), FALSE, FALSE)
             ELSE <<ch>> \o Canon(Tail(s), ch = "\"", FALSE)

JsonError == [ok |-> FALSE, err |-> "JSONDecodeError"]

JsonLoads(s) ==
    LET i == SkipWs(s, 1)
        e == ValueEnd(s, i)
    IN  IF e # 0 /\ SkipWs(s, e) = Len(s) + 1
        THEN [ok |-> TRUE, kind |-> KindOf(s[i]), canon |-> Canon(s, FALSE, FALSE)]
        ELSE JsonError

(***************************************************************************)
(* _extract_json_from_text (lines 57-135)                                  *)
(***************************************************************************)
ExtractJsonFromText(raw) ==
    IF Strip(raw) = <<>> THEN [ok |-> FALSE, err |-> "empty response"]
    ELSE LET t    == ChooseText(raw)
             se   == FindSpan(t)
             sub  == IF se.ok THEN JsonLoads(SubSeq(t, se.start, se.end))
                     ELSE JsonError
         IN  IF se.ok /\ sub.ok THEN sub ELSE JsonLoads(t)

(***************************************************************************)
(* Inputs of the extractor: prose before, the structured value, prose      *)
(* after.  Prose is a sequence of tokens; q stands for the quote.          *)
(***************************************************************************)
MaxPre == 2

q == "\""

\* {"t":["a","b"],"d":"x"}
BodyTags == <<"{", q, "t", q, ":", "[", q, "a", q, ",", q, "b", q, "]", ",",
              q, "d", q, ":", q, "x", q, "}">>
\* {"t":[[1],{"k":[]}],"d":2}
BodyNested == <<"{", q, "t", q, ":", "[", "[", "1", "]", ",", "{", q, "k", q, ":",
                "[", "]", "}", "]", ",", q, "d", q, ":", "2", "}">>
\* { "t" : [ 1 ] }
BodySpaced == <<"{", " ", q, "t", q, " ", ":", " ", "[", " ", "1", " ", "]", " ", "}">>
\* {"t":["]"],"d":"}{"}
BodyBrackets == <<"{", q, "t", q, ":", "[", q, "]", q, "]", ",",
                  q, "d", q, ":", q, "}", "{", q, "}">>
\* {"t":["a"],"d":"aa"}
BodyBracketsPlain == <<"{", q, "t", q, ":", "[", q, "a", q, "]", ",",
                       q, "d", q, ":", q, "a", "a", q, "}">>
\* {"t":["\"]"],"d":"[\\"}
BodyEscapes == <<"{", q, "t", q, ":", "[", q, "\\", q, "]", q, "]", ",",
                 q, "d", q, ":", q, "[", "\\", "\\", q, "}">>
\* {"t":["aaa"],"d":"a\\"}
BodyEscapesPlain == <<"{", q, "t", q, ":", "[", q, "a", "a", "a", q, "]", ",",
                      q, "d", q, ":", q, "a", "\\", "\\", q, "}">>
\* {"]":[1]}
BodyKey == <<"{", q, "]", q, ":", "[", "1", "]", "}">>
\* {"a":[1]}
BodyKeyPlain == <<"{", q, "a", q, ":", "[", "1", "]", "}">>

\* objects whose first field's value is an array
ArrayFirstObjects ==
    {BodyTags, BodyNested, BodySpaced, BodyBrackets, BodyBracketsPlain,
     BodyEscapes, BodyEscapesPlain, BodyKey, BodyKeyPlain}

\* the values whose strings hold { } [ ] or an escaped quote
StringyBodies == {BodyBrackets, BodyEscapes, BodyKey}

\* the value with those in-string characters replaced by the letter a
Plain(b) ==
    CASE b = BodyBrackets -> BodyBracketsPlain
      [] b = BodyEscapes -> BodyEscapesPlain
      [] b = BodyKey -> BodyKeyPlain
      [] OTHER -> b

\* texts that are no such object: nothing, a word, a number, an array
\* that never closes, an array that closes and does not parse
OtherBodies ==
    {<<>>, <<"x">>, <<"4", "2">>, <<"[", "1">>, <<"[", "1", ",", "]">>}

Bodies == ArrayFirstObjects \cup OtherBodies

ProseTokens == {<<"x">>, <<" ">>, <<"[">>, <<"}">>, <<q>>, FENCE, <<"j", "s", "o", "n">>}

RECURSIVE TokenSeqs(_)
TokenSeqs(n) ==
    IF n = 0 THEN {<<>>}
    ELSE TokenSeqs(n - 1) \cup {t \o w : t \in ProseTokens, w \in TokenSeqs(n - 1)}

Prefixes == TokenSeqs(MaxPre)

Suffixes == {<<>>, <<" ", "x">>, <<"\n">> \o FENCE, <<"]", "}">>, <<q, "]">>}

InputText == pre \o body \o post

ExtractIdle ==
    /\ pre = <<>> /\ body = <<>> /\ post = <<>>
    /\ extracted = Pending /\ span = Pending

ExtractInit ==
    /\ pre \in Prefixes
    /\ body \in Bodies
    /\ post \in Suffixes
    /\ extracted = Pending
    /\ span = Pending

Extract ==
    /\ extracted = Pending
    /\ extracted' = ExtractJsonFromText(InputText)
    /\ span' = FindSpan(ChooseText(InputText))
    /\ UNCHANGED <<pre, body, post>>

(***************************************************************************)
(* Values decoded from the model's JSON, and Python's int() and str() on   *)
(* them.  A string is a sequence of tokens: whitespace characters, digits, *)
(* signs, and words.                                                       *)
(***************************************************************************)
None == [t |-> "null"]
IntV(k) == [t |-> "int", v |-> k]
StrV(s) == [t |-> "str", s |-> s]
\* the float tenths/10
FloatV(tenths) == [t |-> "float", tenths |-> tenths]
BoolV(b) == [t |-> "bool", v |-> b]
\* a JSON array
JsonList(items) == [t |-> "list", items |-> items]

DigitVal(c) ==
    CASE c = "0" -> 0 [] c = "1" -> 1 [] c = "2" -> 2 [] c = "3" -> 3 [] c = "4" -> 4
      [] c = "5" -> 5 [] c = "6" -> 6 [] c = "7" -> 7 [] c = "8" -> 8 [] c = "9" -> 9

RECURSIVE DecimalValue(_)
DecimalValue(ds) ==
    IF ds = <<>> THEN 0
    ELSE 10 * DecimalValue(SubSeq(ds, 1, Len(ds) - 1)) + DigitVal(ds[Len(ds)])

DigitChar(d) ==
    CASE d = 0 -> "0" [] d = 1 -> "1" [] d = 2 -> "2" [] d = 3 -> "3" [] d = 4 -> "4"
      [] d = 5 -> "5" [] d = 6 -> "6" [] d = 7 -> "7" [] d = 8 -> "8" [] d = 9 -> "9"

\* the decimal digits of n >= 0, without leading zeros
RECURSIVE DigitsOf(_)
DigitsOf(n) ==
    IF n < 10 THEN <<DigitChar(n)>>
    ELSE Append(DigitsOf(n \div 10), DigitChar(n % 10))

Abs(n) == IF n < 0 THEN -n ELSE n

AllDigits(ds) == ds # <<>> /\ \A i \in 1..Len(ds) : ds[i] \in Digits

\* the outcome of a coercion: the integer, or the exception
Fails == [ok |-> FALSE]
Gives(k) == [ok |-> TRUE, v |-> k]

\* int(str): surrounding whitespace, an optional sign, decimal digits
IntOfStr(s) ==
    LET t == Strip(s)
        signed == t # <<>> /\ Head(t) \in {"-", "+"}
        ds == IF signed THEN Tail(t) ELSE t
    IN  IF ~AllDigits(ds) THEN Fails
        ELSE IF signed /\ Head(t) = "-" THEN Gives(-DecimalValue(ds))
        ELSE Gives(DecimalValue(ds))

\* int(x): an int as it is, a bool as 0 or 1, a float truncated toward
\* zero, a string parsed; None and containers raise TypeError
PyInt(x) ==
    CASE x.t = "int" -> Gives(x.v)
      [] x.t = "bool" -> Gives(IF x.v THEN 1 ELSE 0)
      [] x.t = "float" ->
            Gives(IF x.tenths >= 0 THEN x.tenths \div 10 ELSE -((-x.tenths) \div 10))
      [] x.t = "str" -> IntOfStr(x.s)
      [] OTHER -> Fails

\* str(x) for the values a transition field can hold
PyStr(x) ==
    CASE x.t = "str" -> x.s
      [] x.t = "int" -> (IF x.v < 0 THEN <<"-">> ELSE <<>>) \o DigitsOf(Abs(x.v))
      [] x.t = "bool" -> (IF x.v THEN <<"True">> ELSE <<"False">>)
      [] x.t = "float" ->
            (IF x.tenths < 0 THEN <<"-">> ELSE <<>>)
                \o DigitsOf(Abs(x.tenths) \div 10) \o <<".", DigitChar(Abs(x.tenths) % 10)>>
      [] OTHER -> <<"None">>

\* a dict from the response: an absent key is the field value Absent
Absent == [t |-> "absent"]
Dict(srt_idx, id, transition) ==
    [t |-> "dict", srt_idx |-> srt_idx, id |-> id, transition |-> transition]
\* m.get(key): None for an absent key
Get(v) == IF v = Absent THEN None ELSE v

(***************************************************************************)
(* _sanitize_transition (lines 138-143) and _sanitize_matches (155-197)    *)
(***************************************************************************)
\* line 33, with ASCII names for the eight transitions
ALLOWED_TRANSITIONS ==
    << <<"dissolve">>, <<"flash_white">>, <<"left">>, <<"right">>,
       <<"up">>, <<"down">>, <<"zoom">>, <<"blur">> >>
\* line 34
DEFAULT_TRANSITION == <<"dissolve">>

InList(x, list) == \E i \in 1..Len(list) : list[i] = x

\* the sanitizer that hands a trimmed unknown name through: a mutant
SanitizeTransitionUnchecked(name, allowed) ==
    IF name # None THEN Strip(PyStr(name)) ELSE DEFAULT_TRANSITION

SanitizeTransition(name, allowed) ==
    LET n == IF name # None THEN Strip(PyStr(name)) ELSE <<>>
    IN  IF InList(n, allowed) THEN n ELSE DEFAULT_TRANSITION

\* the coercion that lets an out-of-range id through: a mutant
CoerceIdUnchecked(m, max_id) ==
    LET mid_raw == Get(m.id)
        c == IF mid_raw = None THEN Fails ELSE PyInt(mid_raw)
    IN  IF ~c.ok THEN None ELSE IntV(c.v)

\* lines 175-186: the material id of one candidate before the reuse rule;
\* a sanitized id is None or IntV(k)
CoerceId(m, max_id) ==
    LET mid_raw == Get(m.id)
        c == IF mid_raw = None THEN Fails ELSE PyInt(mid_raw)
    IN  IF ~c.ok THEN None
        ELSE IF c.v < 0 \/ c.v > max_id THEN None
        ELSE IntV(c.v)

\* the reuse rule that never demotes a repeat: a mutant
ReuseRuleOff(mid, used, reuse) == mid

\* the reuse rule that demotes every id once any id is in use: a mutant
ReuseRuleAnyUsed(mid, used, reuse) ==
    IF ~reuse /\ mid # None /\ used # {} THEN None ELSE mid

\* lines 188-192: the id kept under the reuse rule
ReuseRule(mid, used, reuse) ==
    IF ~reuse /\ mid # None /\ mid \in used THEN None ELSE mid

\* the loop of lines 167-195 from candidate i on, with the ids used so far
RECURSIVE SanitizeFrom(_, _, _, _, _, _)
SanitizeFrom(ms, i, used, allowed, max_id, reuse) ==
    IF i > Len(ms) THEN <<>>
    ELSE LET m == ms[i]
         IN  IF m.t # "dict" \/ ~PyInt(Get(m.srt_idx)).ok
             THEN SanitizeFrom(ms, i + 1, used, allowed, max_id, reuse)
             ELSE LET mid == ReuseRule(CoerceId(m, max_id), used, reuse)
                      rec == [srt_idx |-> PyInt(Get(m.srt_idx)).v,
                              id |-> mid,
                              transition |-> SanitizeTransition(Get(m.transition), allowed)]
                      used2 == IF ~reuse /\ mid # None THEN used \cup {mid} ELSE used
                  IN  <<rec>> \o SanitizeFrom(ms, i + 1, used2, allowed, max_id, reuse)

ValueErrorNotList == [ok |-> FALSE, raised |-> "ValueError: matches must be a list"]

\* lines 162-163, then the loop
SanitizeMatches(ms, allowed, max_id, reuse) ==
    IF ms.t # "list" THEN ValueErrorNotList
    ELSE [ok |-> TRUE, list |-> SanitizeFrom(ms.items, 1, {}, allowed, max_id, reuse)]

(***************************************************************************)
(* The deterministic fallback of gemini_match_srt_to_materials (659-669),  *)
(* on the sanitized list ms with n materials                               *)
(***************************************************************************)
\* a fallback that steps in as soon as one id is null: a mutant
FallbackAppliesAnyNull(ms, n) ==
    ms # <<>> /\ n > 0 /\ \E i \in 1..Len(ms) : ms[i].id = None

\* line 661
FallbackApplies(ms, n) ==
    ms # <<>> /\ n > 0 /\ \A i \in 1..Len(ms) : ms[i].id = None

\* the id of the record at 0-based position i
\* a fallback that cycles in both modes: a mutant
FallbackIdCyclic(i, n, reuse) == IntV(i % n)

\* a fallback that numbers the records without looking at the number of
\* materials: a mutant
FallbackIdUnbounded(i, n, reuse) == IntV(i)

FallbackId(i, n, reuse) ==
    IF reuse THEN IntV(i % n)
    ELSE IF i < n THEN IntV(i) ELSE None

Fallback(ms, n, reuse, allowed) ==
    IF FallbackApplies(ms, n)
    THEN [i \in 1..Len(ms) |->
            [srt_idx |-> ms[i].srt_idx,
             id |-> FallbackId(i - 1, n, reuse),
             transition |-> SanitizeTransition(StrV(ms[i].transition), allowed)]]
    ELSE ms

(***************************************************************************)
(* Inputs of the sanitizer                                                 *)
(***************************************************************************)
MaxMatches == 3
MaxMaterials == 2

Zoom == StrV(<<"zoom">>)

Candidates ==
    {Dict(IntV(1), IntV(i), Zoom) : i \in 0..MaxMaterials}
    \cup {
        \* numeric strings with blanks, a padded transition name
        Dict(StrV(<<" ", "2", " ">>), StrV(<<" ", "1">>), StrV(<<" ", "zoom", " ">>)),
        \* a negative id, a transition that is no member
        Dict(IntV(2), IntV(-1), StrV(<<"?", "?">>)),
        \* no id and no transition
        Dict(IntV(3), Absent, Absent),
        \* an id that is no integer
        Dict(IntV(4), StrV(<<"x">>), Zoom),
        \* a caption index that is no integer
        Dict(StrV(<<"x">>), IntV(0), Zoom),
        \* floats (2.5 and 0.5), the default transition by name
        Dict(FloatV(25), FloatV(5), StrV(<<"dissolve">>)),
        \* a candidate that is no record
        IntV(7)
    }

RECURSIVE SeqsUpTo(_, _)
SeqsUpTo(S, n) ==
    IF n = 0 THEN {<<>>}
    ELSE SeqsUpTo(S, n - 1) \cup {Append(w, x) : w \in SeqsUpTo(S, n - 1), x \in S}

\* the lists the program passes (line 610) and a list without the default
AllowedLists == {ALLOWED_TRANSITIONS, << <<"flash_white">>, <<"zoom">> >>}

SanitizeIdle ==
    /\ matches = None /\ allowed_transitions = <<>> /\ max_material_id = 0
    /\ allow_reuse = FALSE /\ out = Pending /\ final = Pending

SanitizeInit ==
    /\ matches \in {JsonList(w) : w \in SeqsUpTo(Candidates, MaxMatches)}
                    \cup {Dict(IntV(1), IntV(0), Zoom)}
    /\ allowed_transitions \in AllowedLists
    /\ max_material_id \in -1..(MaxMaterials - 1)
    /\ allow_reuse \in BOOLEAN
    /\ out = Pending
    /\ final = Pending

\* lines 652-657: the call, with max_material_id = len(materials) - 1
Sanitize ==
    /\ out = Pending
    /\ out' = SanitizeMatches(matches, allowed_transitions, max_material_id, allow_reuse)
    /\ UNCHANGED <<matches, allowed_transitions, max_material_id, allow_reuse, final>>

MaterialCount == max_material_id + 1

\* lines 659-669 on the sanitized list
ApplyFallback ==
    /\ out # Pending /\ out.ok
    /\ final = Pending
    /\ final' = [list |-> Fallback(out.list, MaterialCount, allow_reuse, allowed_transitions)]
    /\ UNCHANGED <<matches, allowed_transitions, max_material_id, allow_reuse, out>>

Returned(o) == o # Pending /\ o.ok

(***************************************************************************)
(* The caption time codec: parse_srt_content._parse_time (241-247) and     *)
(* format_srt_timestamp (200-208).  A time value is held exactly, as whole *)
(* seconds and milliseconds 0..999 (one integer of milliseconds would      *)
(* overflow the checker's integers): the double the code computes is       *)
(* within 1e-6 ms of it for hours below 10^8, so round(seconds * 1000.0)   *)
(* is the integer 1000 * sec + ms.                                         *)
(***************************************************************************)
\* t.replace(old, new) for single characters
ReplaceCh(t, old, new) == [i \in 1..Len(t) |-> IF t[i] = old THEN new ELSE t[i]]

\* t.split(sep) for a single character
RECURSIVE SplitOn(_, _)
SplitOn(t, sep) ==
    IF \E i \in 1..Len(t) : t[i] = sep
    THEN LET j == CHOOSE i \in 1..Len(t) :
                    t[i] = sep /\ \A k \in 1..(i - 1) : t[k] # sep
         IN  <<SubSeq(t, 1, j - 1)>> \o SplitOn(Drop(t, j), sep)
    ELSE <<t>>

TimeValue(sec, ms) == [ok |-> TRUE, sec |-> sec, ms |-> ms]

\* float(x) for digits with an optional fraction of up to three digits;
\* anything else raises ValueError
FloatOf(x) ==
    LET parts == SplitOn(Strip(x), ".")
        whole == parts[1]
        frac  == IF Len(parts) = 2 THEN parts[2] ELSE <<>>
        scale == CASE Len(frac) = 0 -> 0 [] Len(frac) = 1 -> 100
                   [] Len(frac) = 2 -> 10 [] OTHER -> 1
    IN  IF /\ Len(parts) <= 2
           /\ whole \o frac # <<>>
           /\ \A i \in 1..Len(whole) : whole[i] \in Digits
           /\ \A i \in 1..Len(frac) : frac[i] \in Digits
           /\ Len(frac) <= 3
        THEN TimeValue(DecimalValue(whole), scale * DecimalValue(frac))
        ELSE Fails

\* _parse_time: float(h) * 3600.0 + float(m) * 60.0 + float(s), or the
\* ValueError of float()
ParseTime(t) ==
    LET parts == SplitOn(ReplaceCh(t, ",", "."), ":")
    IN  IF Len(parts) # 3 THEN TimeValue(0, 0)
        ELSE LET h == FloatOf(parts[1])
                 m == FloatOf(parts[2])
                 sec == FloatOf(parts[3])
             IN  IF h.ok /\ m.ok /\ sec.ok
                 THEN LET millis == h.ms * 3600 + m.ms * 60 + sec.ms
                      IN  TimeValue(h.sec * 3600 + m.sec * 60 + sec.sec + millis \div 1000,
                                    millis % 1000)
                 ELSE Fails

\* the digits of n, zero-padded to at least w: the format spec 0wd
RECURSIVE Padded(_, _)
Padded(ds, w) == IF Len(ds) >= w THEN ds ELSE Padded(<<"0">> \o ds, w)

\* a formatter that leaves the hour unpadded: a mutant
FormatHourUnpadded(h) == DigitsOf(h)

\* {h:02d}
FormatHour(h) == Padded(DigitsOf(h), 2)

\* format_srt_timestamp on the value v: ms // 1000 is v.sec, ms % 1000 is v.ms
FormatSrtTimestamp(v) ==
    LET ms == v.ms
        s0 == v.sec
        s  == s0 % 60
        m0 == s0 \div 60
        m  == m0 % 60
        h  == m0 \div 60
    IN  FormatHour(h) \o <<":">> \o Padded(DigitsOf(m), 2) \o <<":">>
            \o Padded(DigitsOf(s), 2) \o <<",">> \o Padded(DigitsOf(ms), 3)

(***************************************************************************)
(* Inputs of the codec: well-formed H:MM:SS,mmm strings                    *)
(***************************************************************************)
MaxHourWidth == 3

HourStrings == UNION {[1..w -> {"0", "1", "9"}] : w \in 1..MaxHourWidth}
TwoDigits == {<<"0", "0">>, <<"0", "7">>, <<"1", "0">>, <<"5", "9">>}
ThreeDigits == {<<"0", "0", "0">>, <<"0", "0", "4">>, <<"0", "5", "0">>, <<"9", "9", "9">>}

TimeStrings ==
    {h \o <<":">> \o m \o <<":">> \o sec \o <<",">> \o ms :
        h \in HourStrings, m \in TwoDigits, sec \in TwoDigits, ms \in ThreeDigits}

CodecIdle == tstr = <<>> /\ seconds = Pending /\ formatted = Pending

CodecInit == tstr \in TimeStrings /\ seconds = Pending /\ formatted = Pending

ParseTimeStep ==
    /\ seconds = Pending
    /\ seconds' = ParseTime(tstr)
    /\ UNCHANGED <<tstr, formatted>>

FormatStep ==
    /\ seconds # Pending /\ seconds.ok
    /\ formatted = Pending
    /\ formatted' = [text |-> FormatSrtTimestamp(seconds)]
    /\ UNCHANGED <<tstr, seconds>>

(***************************************************************************)
(* analyze_materials_with_gemini (385-565): the per-file cache.            *)
(* A run loads material_analysis.json, then for each path probes the       *)
(* modification time and either serves the stored entry or computes        *)
(* (visual proxy, model call), stores the entry and rewrites the whole     *)
(* file.  Runs follow one another and share the cache directory; files     *)
(* change at any time.                                                     *)
(***************************************************************************)
MaxRuns == 2
MaxMtime == 2

Paths == {"a.mp4", "b.png"}

\* lines 421-422: the kind follows from the extension
KindOf2(p) == IF p = "a.mp4" THEN "video" ELSE "image"

NoEntry == [absent |-> TRUE]
EmptyMap == [p \in Paths |-> NoEntry]

\* the durable file: not there, a JSON mapping, or cut short by an
\* interrupted rewrite
FileAbsent == [kind |-> "absent"]
FileJson(m) == [kind |-> "json", map |-> m]
FileTruncated == [kind |-> "truncated"]

\* lines 403-408: a missing or unparsable file is the empty mapping
LoadCache(f) == IF f.kind = "json" THEN f.map ELSE EmptyMap

\* lines 423-427: os.path.getmtime, 0.0 when it fails (mtime 0: no file)
Probe(p) == mtime[p]

\* a freshness test that never matches: a mutant
NeverFresh(c, frc, mt) == FALSE

\* a freshness test that takes an entry without description for stale: a
\* mutant
IsFreshIfDescribed(c, frc, mt) ==
    ~frc /\ c # NoEntry /\ c.mtime = mt /\ c.desc # <<>>

\* line 430
IsFresh(c, frc, mt) == ~frc /\ c # NoEntry /\ c.mtime = mt

\* a record built from the probe instead of the stored entry: a mutant
BlankRecord(c, p, n) ==
    [id |-> n, path |-> p, kind |-> KindOf2(p), duration |-> 0,
     desc |-> <<>>, tags |-> <<>>]

\* a hit whose record takes the position of its path in the mapping instead
\* of its position in the results: a mutant
CachedRecordKeyed(c, p, n) ==
    [id |-> IF p = "a.mp4" THEN 0 ELSE 1, path |-> p, kind |-> c.kind,
     duration |-> c.duration, desc |-> c.desc, tags |-> c.tags]

\* lines 431-440: the record of a hit
CachedRecord(c, p, n) ==
    [id |-> n, path |-> p, kind |-> c.kind, duration |-> c.duration,
     desc |-> c.desc, tags |-> c.tags]

\* what the model stage (lines 471-542) leaves in tags and desc: a
\* description, or the empty pair of a degraded material
Described == [tags |-> <<"tag">>, desc |-> <<"desc">>]
Degraded == [tags |-> <<>>, desc |-> <<>>]
Analyses == {Described, Degraded}

\* lines 455-459: the duration is the stored one for a video, else 0.0
DurationOf(p, c) == IF KindOf2(p) = "video" /\ c # NoEntry THEN c.duration ELSE 0

\* lines 544-551
NewEntry(p, mt, c, a, img) ==
    [mtime |-> mt, kind |-> KindOf2(p), duration |-> DurationOf(p, c),
     tags |-> a.tags, desc |-> a.desc, vision_image |-> img]

NoImage == <<"", 0>>

\* material_paths: one material, the two in either order, one of them twice
PathLists ==
    {<<"a.mp4">>, <<"b.png">>, <<"a.mp4", "b.png">>, <<"b.png", "a.mp4">>,
     <<"a.mp4", "a.mp4">>, <<"b.png", "b.png">>}

AnalyzeIdle ==
    /\ mtime = [p \in Paths |-> 1] /\ cache_file = FileAbsent /\ proxies = {}
    /\ pc = "idle" /\ force = FALSE /\ material_paths = <<>> /\ todo = <<>> /\ cache = EmptyMap
    /\ probe = 0 /\ vision_image = NoImage /\ analysis = Degraded /\ results = <<>>
    /\ runs = 0 /\ written = EmptyMap
    /\ lookups = [p \in Paths |-> 0] /\ computes = [p \in Paths |-> 0]
    /\ forced = [p \in Paths |-> FALSE]

AnalyzeInit ==
    /\ mtime \in [Paths -> {0, 1}] /\ cache_file = FileAbsent /\ proxies = {}
    /\ pc = "idle" /\ force = FALSE /\ material_paths = <<>> /\ todo = <<>> /\ cache = EmptyMap
    /\ probe = 0 /\ vision_image = NoImage /\ analysis = Degraded /\ results = <<>>
    /\ runs = 0 /\ written = EmptyMap
    /\ lookups = [p \in Paths |-> 0] /\ computes = [p \in Paths |-> 0]
    /\ forced = [p \in Paths |-> FALSE]

\* the file p is written (or created): its modification time moves on.
\* A run reads the time at the probe and when it copies an image, so a
\* change later in the material's turn is the same change after the turn.
Touch(p) ==
    /\ pc \in {"idle", "loop", "proxy"}
    /\ mtime[p] < MaxMtime
    /\ mtime' = [mtime EXCEPT ![p] = @ + 1]
    /\ lookups' = [lookups EXCEPT ![p] = 0]
    /\ computes' = [computes EXCEPT ![p] = 0]
    /\ forced' = [forced EXCEPT ![p] = FALSE]
    /\ UNCHANGED <<cache_file, proxies, runVars, runs, written>>

\* lines 398-410: a run starts and loads the cache file
StartRun(paths, frc) ==
    /\ pc = "idle" /\ runs < MaxRuns
    /\ runs' = runs + 1
    /\ pc' = "loop" /\ force' = frc /\ material_paths' = paths /\ todo' = paths
    /\ cache' = LoadCache(cache_file)
    /\ results' = <<>> /\ probe' = 0 /\ vision_image' = NoImage
    /\ analysis' = Degraded
    /\ UNCHANGED <<envVars, written, lookups, computes, forced>>

\* lines 419-441: probe, and on a fresh entry append its record
LookupHit ==
    /\ pc = "loop" /\ todo # <<>>
    /\ LET p == Head(todo)
       IN  /\ IsFresh(cache[p], force, Probe(p))
           /\ results' = Append(results, CachedRecord(cache[p], p, Len(results)))
           /\ lookups' = [lookups EXCEPT ![p] = @ + 1]
    /\ todo' = Tail(todo)
    /\ UNCHANGED <<envVars, pc, force, material_paths, cache, probe, vision_image, analysis, runs,
                   written, computes, forced>>

\* lines 429-430 failing: the compute step begins
LookupMiss ==
    /\ pc = "loop" /\ todo # <<>>
    /\ LET p == Head(todo)
       IN  /\ ~IsFresh(cache[p], force, Probe(p))
           /\ probe' = Probe(p)
           /\ computes' = [computes EXCEPT ![p] = IF force THEN @ ELSE @ + 1]
           /\ forced' = [forced EXCEPT ![p] = @ \/ force]
    /\ pc' = "proxy"
    /\ UNCHANGED <<envVars, force, material_paths, todo, cache, vision_image, analysis, results,
                   runs, written, lookups>>

\* lines 445-446 and 377: the proxy of a video is named after the path and
\* the probed time, the copy of an image after the path and its time now
ProxyKey ==
    IF KindOf2(Head(todo)) = "video" THEN <<Head(todo), probe>>
    ELSE <<Head(todo), mtime[Head(todo)]>>

\* lines 443-452: the proxy is on disk already, or is generated now
ProxyReady ==
    /\ pc = "proxy"
    /\ mtime[Head(todo)] # 0 \/ (KindOf2(Head(todo)) = "video" /\ ProxyKey \in proxies)
    /\ proxies' = proxies \cup {ProxyKey}
    /\ vision_image' = ProxyKey
    /\ pc' = "model"
    /\ UNCHANGED <<mtime, cache_file, force, material_paths, todo, cache, probe, analysis, results,
                   histVars>>

\* the compute step of a lookup that does not complete is not counted
Uncount(p) ==
    [computes EXCEPT ![p] = IF ~force /\ probe = mtime[p] /\ @ > 0 THEN @ - 1 ELSE @]

\* make_storyboard_image or _copy_into_cache raises (ffmpeg fails, the file
\* is gone, the copy fails): nothing catches it and the run ends there,
\* todo keeping the place
ProxyRaises ==
    /\ pc = "proxy"
    /\ ProxyKey \notin proxies \/ mtime[Head(todo)] = 0
    /\ pc' = "idle"
    /\ computes' = Uncount(Head(todo))
    /\ results' = <<>>
    /\ UNCHANGED <<envVars, force, material_paths, todo, cache, probe, vision_image, analysis, runs,
                   written, lookups, forced>>

\* lines 471-551: the model stage leaves tags and desc, the entry is stored
\* in the mapping
ModelStage(a) ==
    /\ pc = "model"
    /\ analysis' = a
    /\ cache' = [cache EXCEPT ![Head(todo)] =
                    NewEntry(Head(todo), probe, @, a, vision_image)]
    /\ pc' = "write_open"
    /\ UNCHANGED <<envVars, force, material_paths, todo, probe, vision_image, results, histVars>>

\* _write_text, line 53: open(path, "w") empties the file
WriteOpen ==
    /\ pc = "write_open"
    /\ cache_file' = FileTruncated
    /\ pc' = "write_data"
    /\ UNCHANGED <<mtime, proxies, force, material_paths, todo, cache, probe, vision_image, analysis,
                   results, histVars>>

\* _write_text, line 54, then lines 554-563: the whole mapping is on disk
\* and the record is appended
WriteData ==
    /\ pc = "write_data"
    /\ cache_file' = FileJson(cache)
    /\ written' = cache
    /\ LET p == Head(todo)
       IN  /\ results' = Append(results,
                    [id |-> Len(results), path |-> p, kind |-> KindOf2(p),
                     duration |-> cache[p].duration, desc |-> analysis.desc,
                     tags |-> analysis.tags])
           /\ lookups' = [lookups EXCEPT ![p] =
                            IF ~force /\ probe = mtime[p] THEN @ + 1 ELSE @]
    /\ todo' = Tail(todo)
    /\ pc' = "loop"
    /\ UNCHANGED <<mtime, proxies, force, material_paths, cache, probe, vision_image, analysis, runs,
                   computes, forced>>

\* line 565
Return ==
    /\ pc = "loop" /\ todo = <<>>
    /\ pc' = "idle"
    /\ UNCHANGED <<envVars, force, material_paths, todo, cache, probe, vision_image, analysis, results,
                   histVars>>

\* the material whose entry a stopped run was computing or writing
InFlight == IF pc = "loop" \/ todo = <<>> THEN {} ELSE {Head(todo)}

\* the process is killed in the middle of a run, todo keeping the place
Crash ==
    /\ pc \notin {"idle", "loop"}
    /\ pc' = "idle"
    /\ computes' = Uncount(Head(todo))
    /\ results' = <<>>
    /\ UNCHANGED <<envVars, force, material_paths, todo, cache, probe, vision_image, analysis, runs,
                   written, lookups, forced>>

\* the same between two materials
CrashBetween ==
    /\ pc = "loop"
    /\ pc' = "idle"
    /\ todo' = <<>> /\ results' = <<>>
    /\ UNCHANGED <<envVars, force, material_paths, cache, probe, vision_image, analysis, histVars>>

(***************************************************************************)
(* gemini_match_srt_to_materials (568-672): the matching phase.            *)
(* A call serves srt_matches.json when it is there and force is off; else  *)
(* it asks the model, extracts a list, sanitizes it, applies the fallback, *)
(* writes the file and returns the list.  Calls follow one another in the  *)
(* same cache directory, each with its own arguments.                      *)
(***************************************************************************)
MaxMatchRuns == 2
MaxSubs == 2
MaxAnswer == 2

\* what comes back from the model: run_gemini_cli raises, or the response
\* has no JSON in it, or it decodes to something that is no list, or to a
\* list
CliRaises == [t |-> "raises"]
Unparsable == [t |-> "text"]
NotAList == Dict(IntV(1), IntV(0), Zoom)

\* the elements of an answered list: material 0 for caption 1 and for
\* caption 2, no material for caption 1, something that is no record
AnswerCandidates ==
    {Dict(IntV(1), IntV(0), Zoom), Dict(IntV(2), IntV(0), Zoom),
     Dict(IntV(1), None, Absent), IntV(7)}

MatchAnswers ==
    {CliRaises, Unparsable, NotAList}
        \cup {JsonList(w) : w \in SeqsUpTo(AnswerCandidates, MaxAnswer)}

MatchArgs ==
    [subs : 0..MaxSubs, materials : 0..MaxMaterials, force : BOOLEAN,
     allow_reuse : BOOLEAN]

NoArgs == [subs |-> 0, materials |-> 0, force |-> FALSE, allow_reuse |-> FALSE]

RuntimeErrorParse == [ok |-> FALSE, raised |-> "RuntimeError: Failed to parse Gemini matches JSON"]
RuntimeErrorNotList == [ok |-> FALSE, raised |-> "RuntimeError: Gemini returned non-list matches JSON."]
CliError == [ok |-> FALSE, raised |-> "GeminiCliError"]

MatchIdle ==
    /\ match_file = FileAbsent /\ raw_file = FALSE /\ match_pc = "idle"
    /\ match_args = NoArgs /\ returned = Pending /\ match_runs = 0

\* the cache directory is new, or holds a file a killed write cut short
MatchInit ==
    /\ match_file \in {FileAbsent, FileTruncated}
    /\ raw_file = FALSE /\ match_pc = "idle"
    /\ match_args = NoArgs /\ returned = Pending /\ match_runs = 0

\* line 581 and the json.loads of line 583 succeeding
MatchFileServes(frc) == ~frc /\ match_file.kind = "json"

\* lines 581-583: the stored list is returned as it is
MatchServed(args) ==
    /\ match_pc = "idle" /\ match_runs < MaxMatchRuns
    /\ MatchFileServes(args.force)
    /\ match_runs' = match_runs + 1
    /\ match_args' = args
    /\ returned' = [ok |-> TRUE, list |-> match_file.value]
    /\ UNCHANGED <<match_file, raw_file, match_pc>>

\* lines 581-637: no file to serve, the model is asked
MatchCall(args) ==
    /\ match_pc = "idle" /\ match_runs < MaxMatchRuns
    /\ ~MatchFileServes(args.force)
    /\ match_runs' = match_runs + 1
    /\ match_args' = args
    /\ returned' = Pending
    /\ match_pc' = "call"
    /\ UNCHANGED <<match_file, raw_file>>

\* lines 652-669 on a decoded list
MatchesFrom(ms, args) ==
    Fallback(SanitizeMatches(ms, ALLOWED_TRANSITIONS, args.materials - 1,
                             args.allow_reuse).list,
             args.materials, args.allow_reuse, ALLOWED_TRANSITIONS)

\* a matching phase that opens srt_matches.json for writing before it has
\* looked at the answer: a mutant
MatchAnswerOpensFirst(ans) ==
    /\ match_pc = "call"
    /\ match_pc' = "idle"
    /\ IF ans = CliRaises
         THEN returned' = CliError /\ UNCHANGED <<match_file, raw_file>>
       ELSE IF ans = Unparsable
         THEN returned' = RuntimeErrorParse /\ raw_file' = TRUE
              /\ match_file' = FileTruncated
       ELSE IF ans.t # "list"
         THEN returned' = RuntimeErrorNotList /\ match_file' = FileTruncated
              /\ UNCHANGED raw_file
       ELSE /\ returned' = [ok |-> TRUE, list |-> MatchesFrom(ans, match_args)]
            /\ match_file' = [kind |-> "json", value |-> MatchesFrom(ans, match_args)]
            /\ UNCHANGED raw_file
    /\ UNCHANGED <<match_args, match_runs>>

\* lines 630-672 from the answer on
MatchAnswer(ans) ==
    /\ match_pc = "call"
    /\ match_pc' = "idle"
    /\ IF ans = CliRaises
         THEN returned' = CliError /\ UNCHANGED <<match_file, raw_file>>
       ELSE IF ans = Unparsable
         THEN returned' = RuntimeErrorParse /\ raw_file' = TRUE
              /\ UNCHANGED match_file
       ELSE IF ans.t # "list"
         THEN returned' = RuntimeErrorNotList /\ UNCHANGED <<match_file, raw_file>>
       ELSE /\ returned' = [ok |-> TRUE, list |-> MatchesFrom(ans, match_args)]
            /\ match_file' = [kind |-> "json", value |-> MatchesFrom(ans, match_args)]
            /\ UNCHANGED raw_file
    /\ UNCHANGED <<match_args, match_runs>>

(***************************************************************************)
(* parse_srt_content (223-256), from the stripped lines of line 225 on.    *)
(* A line is a sequence of characters; ARROW stands for the three          *)
(* characters of the separator.                                            *)
(***************************************************************************)
ARROW == "-->"

\* str.isdigit on a line of ASCII characters
IsDigitLine(l) == AllDigits(l)

\* "-->" in line
HasArrow(l) == \E k \in 1..Len(l) : l[k] = ARROW

\* line 230, at the 1-based position k
BlockAt(ls, k) ==
    /\ k <= Len(ls) /\ IsDigitLine(ls[k])
    /\ k + 1 <= Len(ls) /\ HasArrow(ls[k + 1])

\* lines 234-237: the position after the run of text lines that begins at j
RECURSIVE TextEnd(_, _)
TextEnd(ls, j) ==
    IF j <= Len(ls) /\ ls[j] # <<>> /\ ~IsDigitLine(ls[j])
    THEN TextEnd(ls, j + 1) ELSE j

\* " ".join(txt_lines)
RECURSIVE JoinSpace(_)
JoinSpace(ls) ==
    IF ls = <<>> THEN <<>>
    ELSE IF Len(ls) = 1 THEN ls[1]
    ELSE ls[1] \o <<" ">> \o JoinSpace(Tail(ls))

\* line 250
TextOf(ls, from, to) == Strip(JoinSpace(SubSeq(ls, from, to - 1)))

\* line 239: the two time strings of the time line
TimeParts(l) == LET ps == SplitOn(l, ARROW) IN <<Strip(ps[1]), Strip(ps[2])>>

\* lines 249-251: the item of the block at k, or the ValueError of float()
ItemAt(ls, k) ==
    LET ts == TimeParts(ls[k + 1])
        st == ParseTime(ts[1])
        en == ParseTime(ts[2])
    IN  IF st.ok /\ en.ok
        THEN [ok |-> TRUE, idx |-> DecimalValue(ls[k]), start |-> st, end |-> en,
              text |-> TextOf(ls, k + 2, TextEnd(ls, k + 2))]
        ELSE Fails

MaxLines == 4

T1 == <<"0", "0", ":", "0", "0", ":", "0", "1", ",", "0", "0", "0">>
T2 == <<"0", "0", ":", "0", "0", ":", "0", "2", ",", "5", "0", "0">>

\* an index line, a second one, a well-formed time line, a time line whose
\* times have two fields, one whose seconds are no number, text, a blank
LineVocabulary ==
    {<<"1">>, <<"2">>,
     T1 \o <<" ", ARROW, " ">> \o T2,
     <<"0", "1", ":", "0", "2", ARROW, "0", "3">>,
     <<"0", "0", ":", "0", "0", ":", "x", " ", ARROW, " ">> \o T2,
     <<"h", "i">>, <<>>}

SrtIdle ==
    srt_lines = <<>> /\ srt_i = 1 /\ srt_items = <<>> /\ srt_pc = "idle"

\* lines 226-227
SrtInit ==
    /\ srt_lines \in SeqsUpTo(LineVocabulary, MaxLines)
    /\ srt_i = 1 /\ srt_items = <<>> /\ srt_pc = "scan"

\* lines 230-253: a block begins at lines[i]; its item is appended and the
\* scan resumes after its text, or float() raises out of the function
SrtBlock ==
    /\ srt_pc = "scan" /\ srt_i <= Len(srt_lines)
    /\ BlockAt(srt_lines, srt_i)
    /\ LET it == ItemAt(srt_lines, srt_i)
       IN  IF it.ok
           THEN /\ srt_items' = Append(srt_items, it)
                /\ srt_i' = TextEnd(srt_lines, srt_i + 2)
                /\ srt_pc' = "scan"
           ELSE /\ srt_pc' = "raised"
                /\ UNCHANGED <<srt_items, srt_i>>
    /\ UNCHANGED srt_lines

\* line 254
SrtSkip ==
    /\ srt_pc = "scan" /\ srt_i <= Len(srt_lines)
    /\ ~BlockAt(srt_lines, srt_i)
    /\ srt_i' = srt_i + 1
    /\ UNCHANGED <<srt_lines, srt_items, srt_pc>>

\* lines 229 and 255
SrtReturn ==
    /\ srt_pc = "scan" /\ srt_i > Len(srt_lines)
    /\ srt_pc' = "returned"
    /\ UNCHANGED <<srt_lines, srt_i, srt_items>>

(***************************************************************************)
(* run_gemini_cli (gemini_cli_bridge.py 46-202) with output_format json:   *)
(* the attempt loop.  Each attempt runs the CLI once and ends in one of    *)
(* the outcomes below.                                                     *)
(***************************************************************************)
max_attempts == 3
InitialSleep == 5
SleepFactor == 3
SleepCeiling == 60

\* how one subprocess.run ends: the timeout expires; a non-zero exit with
\* or without a capacity signature in stderr; a zero exit whose response is
\* an answer, or carries a bootstrap marker, or whose stdout is no JSON
AttemptOutcomes ==
    {"timeout", "capacity", "failed", "answer", "bootstrap", "garbled"}

OutputFormats == {"json", "text", "stream-json"}

BridgeIdle ==
    /\ bridge_pc = "idle" /\ output_format = "json" /\ stdin_file = "none"
    /\ attempt = 1
    /\ sleep_s = InitialSleep /\ attempts_made = <<>> /\ waits = <<>>

\* lines 76-90: stdin_text, when given, is in a temporary file
BridgeInit ==
    /\ bridge_pc = "attempt" /\ output_format \in OutputFormats
    /\ stdin_file \in {"none", "written"} /\ attempt = 1
    /\ sleep_s = InitialSleep /\ attempts_made = <<>> /\ waits = <<>>

\* a loop that retries any zero exit that is no answer: a mutant
BootstrapRetryAlways(o, fmt, a) == o \in {"bootstrap", "garbled"}

\* lines 119-143: a zero exit is retried when the format is json, the
\* response carries a bootstrap marker and attempts remain
BootstrapRetry(o, fmt, a) == o = "bootstrap" /\ fmt = "json" /\ a < max_attempts

\* a loop that retries a capacity failure without counting: a mutant
CapacityRetryUncounted(o, a) == o = "capacity"

\* lines 146-156: a non-zero exit is retried when stderr carries a capacity
\* signature and attempts remain
CapacityRetry(o, a) == o = "capacity" /\ a < max_attempts

\* line 169
NextSleep(w) == IF w * SleepFactor < SleepCeiling THEN w * SleepFactor ELSE SleepCeiling

ZeroExit == {"answer", "bootstrap", "garbled"}

\* one pass of the loop body, lines 91-160, and for a zero exit what
\* follows the loop (lines 174-196): stdout that is no JSON object raises
\* in the json format and is the response in the others
Attempt(o) ==
    /\ bridge_pc = "attempt"
    /\ attempts_made' = Append(attempts_made, o)
    /\ IF o = "timeout"
         THEN bridge_pc' = "TimeoutExpired" /\ UNCHANGED attempt
       ELSE IF o \in ZeroExit
         THEN IF BootstrapRetry(o, output_format, attempt)
              THEN attempt' = attempt + 1 /\ UNCHANGED bridge_pc
              ELSE /\ bridge_pc' = IF o = "garbled" /\ output_format = "json"
                                   THEN "GeminiCliError" ELSE "returned"
                   /\ UNCHANGED attempt
       ELSE IF CapacityRetry(o, attempt)
         THEN bridge_pc' = "backoff" /\ UNCHANGED attempt
       ELSE bridge_pc' = "GeminiCliError" /\ UNCHANGED attempt
    \* lines 197-202: the finally clause removes the temporary file
    /\ stdin_file' = IF bridge_pc' \notin {"attempt", "backoff"} /\ stdin_file = "written"
                     THEN "removed" ELSE stdin_file
    /\ UNCHANGED <<output_format, sleep_s, waits>>

\* lines 162-169: the wait, the next wait, the next attempt
Backoff ==
    /\ bridge_pc = "backoff"
    /\ waits' = Append(waits, sleep_s)
    /\ sleep_s' = NextSleep(sleep_s)
    /\ attempt' = attempt + 1
    /\ bridge_pc' = "attempt"
    /\ UNCHANGED <<output_format, stdin_file, attempts_made>>

(***************************************************************************)
(* The model stage of analyze_materials_with_gemini (471-542), call by     *)
(* call.  ModelStage above is this stage as one step.                      *)
(***************************************************************************)
\* how one _call ends: run_gemini_cli raises GeminiCliError, or another
\* exception (the timeout); or it returns a response that is a refusal
\* (no JSON, one of the markers of lines 485-490), some other text without
\* JSON, or a JSON object with no tags and no description, with tags and a
\* description about the file instead of the picture, or with a description
Responses ==
    {"cli_error", "timeout", "refusal", "garbage", "empty", "metadata", "described"}

CallRaises(r) == r \in {"cli_error", "timeout"}

\* lines 483-491
HasRefusalMarker(r) == r = "refusal"

\* _extract_json_from_text returns
Extractable(r) == r \in {"empty", "metadata", "described"}

MetaLike == [tags |-> <<"png">>, desc |-> <<"media">>]

\* lines 504-510: tags and desc as validated
ContentOf(r) ==
    CASE r = "described" -> Described
      [] r = "metadata" -> MetaLike
      [] OTHER -> Degraded

\* lines 512-519
LooksLikeFileMetadata(c) == c.desc # <<>> /\ c = MetaLike

\* a stage that never retries on the detector's flag: a mutant
NeedsRetryNever(forcedModel, c) == FALSE

\* line 521
NeedsRetry(forcedModel, c) ==
    forcedModel /\ ((c.tags = <<>> /\ c.desc = <<>>) \/ LooksLikeFileMetadata(c))

\* the detector was consulted on the response r and answered yes: line 521
\* evaluates it only with a forced model and a content that is not empty
Flags(forcedModel, r) ==
    /\ forcedModel /\ Extractable(r)
    /\ ~(ContentOf(r).tags = <<>> /\ ContentOf(r).desc = <<>>)
    /\ LooksLikeFileMetadata(ContentOf(r))

ModelIdle ==
    /\ vision_model = FALSE /\ stage = "idle" /\ model_calls = <<>>
    /\ outcome = Pending /\ raw_last = FALSE

ModelInit ==
    /\ vision_model \in BOOLEAN /\ stage = "first" /\ model_calls = <<>>
    /\ outcome = Pending /\ raw_last = FALSE

\* the stage after a call made in stage st returned r, "done" when no call
\* follows
StageAfter(st, forcedModel, r) ==
    IF CallRaises(r) THEN "done"
    ELSE IF st = "first" /\ forcedModel /\ HasRefusalMarker(r) THEN "refusal_retry"
    ELSE IF st = "flag_retry" THEN "done"
    ELSE IF ~Extractable(r)
         THEN IF forcedModel /\ st # "extract_retry" THEN "extract_retry" ELSE "done"
    ELSE IF NeedsRetry(forcedModel, ContentOf(r)) THEN "flag_retry"
    ELSE "done"

\* one _call and what lines 482-542 do with its result
ModelCall(r) ==
    /\ stage \in {"first", "refusal_retry", "extract_retry", "flag_retry"}
    /\ model_calls' = Append(model_calls,
            [forced |-> vision_model /\ stage = "first", response |-> r,
             flagged |-> stage # "flag_retry" /\ Flags(vision_model, r)])
    /\ stage' = StageAfter(stage, vision_model, r)
    /\ outcome' = IF stage' = "done" THEN ContentOf(r) ELSE Pending
    /\ raw_last' = (raw_last \/ stage' = "flag_retry")
    /\ UNCHANGED vision_model

(***************************************************************************)
(* Specifications                                                          *)
(***************************************************************************)
InitExtract == ExtractInit /\ SanitizeIdle /\ CodecIdle /\ AnalyzeIdle /\ MatchIdle /\ SrtIdle /\ BridgeIdle /\ ModelIdle

NextExtract == Extract /\ UNCHANGED <<sanitizeVars, codecVars, analyzeVars, matchVars, srtVars, bridgeVars, modelVars>>

SpecExtract == InitExtract /\ [][NextExtract]_vars

InitSanitize == SanitizeInit /\ ExtractIdle /\ CodecIdle /\ AnalyzeIdle /\ MatchIdle /\ SrtIdle /\ BridgeIdle /\ ModelIdle

NextSanitize ==
    \/ Sanitize /\ UNCHANGED <<extractVars, codecVars, analyzeVars, matchVars, srtVars, bridgeVars, modelVars>>
    \/ ApplyFallback /\ UNCHANGED <<extractVars, codecVars, analyzeVars, matchVars, srtVars, bridgeVars, modelVars>>

InitCodec == CodecInit /\ ExtractIdle /\ SanitizeIdle /\ AnalyzeIdle /\ MatchIdle /\ SrtIdle /\ BridgeIdle /\ ModelIdle

NextCodec ==
    \/ ParseTimeStep /\ UNCHANGED <<extractVars, sanitizeVars, analyzeVars, matchVars, srtVars, bridgeVars, modelVars>>
    \/ FormatStep /\ UNCHANGED <<extractVars, sanitizeVars, analyzeVars, matchVars, srtVars, bridgeVars, modelVars>>

SpecCodec == InitCodec /\ [][NextCodec]_vars

OtherIdle == ExtractIdle /\ SanitizeIdle /\ CodecIdle /\ MatchIdle /\ SrtIdle /\ BridgeIdle /\ ModelIdle
otherVars == <<extractVars, sanitizeVars, codecVars, matchVars, srtVars, bridgeVars, modelVars>>

Init == AnalyzeInit /\ OtherIdle

Next ==
    \/ \E p \in Paths : Touch(p) /\ UNCHANGED otherVars
    \/ \E paths \in PathLists, frc \in BOOLEAN :
            StartRun(paths, frc) /\ UNCHANGED otherVars
    \/ LookupHit /\ UNCHANGED otherVars
    \/ LookupMiss /\ UNCHANGED otherVars
    \/ ProxyReady /\ UNCHANGED otherVars
    \/ ProxyRaises /\ UNCHANGED otherVars
    \/ \E a \in Analyses : ModelStage(a) /\ UNCHANGED otherVars
    \/ WriteOpen /\ UNCHANGED otherVars
    \/ WriteData /\ UNCHANGED otherVars
    \/ Return /\ UNCHANGED otherVars

InitMatch == MatchInit /\ ExtractIdle /\ SanitizeIdle /\ CodecIdle /\ AnalyzeIdle /\ SrtIdle /\ BridgeIdle /\ ModelIdle

NextMatch ==
    \/ \E args \in MatchArgs : MatchServed(args)
            /\ UNCHANGED <<extractVars, sanitizeVars, codecVars, analyzeVars, srtVars, bridgeVars, modelVars>>
    \/ \E args \in MatchArgs : MatchCall(args)
            /\ UNCHANGED <<extractVars, sanitizeVars, codecVars, analyzeVars, srtVars, bridgeVars, modelVars>>
    \/ \E ans \in MatchAnswers : MatchAnswer(ans)
            /\ UNCHANGED <<extractVars, sanitizeVars, codecVars, analyzeVars, srtVars, bridgeVars, modelVars>>

SpecMatch == InitMatch /\ [][NextMatch]_vars

\* runs that end by returning or by an exception of their own
Spec == Init /\ [][Next]_vars

NextCrash ==
    \/ Next
    \/ Crash /\ UNCHANGED otherVars
    \/ CrashBetween /\ UNCHANGED otherVars

\* the same runs, any of which may be killed at any point
SpecCrash == Init /\ [][NextCrash]_vars

SpecSanitize == InitSanitize /\ [][NextSanitize]_vars

InitSrt == SrtInit /\ ExtractIdle /\ SanitizeIdle /\ CodecIdle /\ AnalyzeIdle /\ MatchIdle /\ BridgeIdle /\ ModelIdle

NextSrt ==
    \/ SrtBlock /\ UNCHANGED <<extractVars, sanitizeVars, codecVars, analyzeVars, matchVars, bridgeVars, modelVars>>
    \/ SrtSkip /\ UNCHANGED <<extractVars, sanitizeVars, codecVars, analyzeVars, matchVars, bridgeVars, modelVars>>
    \/ SrtReturn /\ UNCHANGED <<extractVars, sanitizeVars, codecVars, analyzeVars, matchVars, bridgeVars, modelVars>>

SpecSrt == InitSrt /\ [][NextSrt]_vars

InitBridge == BridgeInit /\ ExtractIdle /\ SanitizeIdle /\ CodecIdle /\ AnalyzeIdle /\ MatchIdle /\ SrtIdle /\ ModelIdle

NextBridge ==
    \/ \E o \in AttemptOutcomes : Attempt(o)
            /\ UNCHANGED <<extractVars, sanitizeVars, codecVars, analyzeVars, matchVars, srtVars, modelVars>>
    \/ Backoff
            /\ UNCHANGED <<extractVars, sanitizeVars, codecVars, analyzeVars, matchVars, srtVars, modelVars>>

SpecBridge == InitBridge /\ [][NextBridge]_vars

InitModel == ModelInit /\ ExtractIdle /\ SanitizeIdle /\ CodecIdle /\ AnalyzeIdle /\ MatchIdle /\ SrtIdle /\ BridgeIdle

NextModel ==
    \E r \in Responses : ModelCall(r)
        /\ UNCHANGED <<extractVars, sanitizeVars, codecVars, analyzeVars, matchVars, srtVars, bridgeVars>>

SpecModel == InitModel /\ [][NextModel]_vars

(***************************************************************************)
(* Claims about _extract_json_from_text, under SpecExtract                 *)
(***************************************************************************)
\* the value lies whole in the chosen text t and no { or [ precedes it there
ValueLeads(t, b) ==
    \E i \in 1..Len(t) :
        /\ i + Len(b) - 1 <= Len(t)
        /\ SubSeq(t, i, i + Len(b) - 1) = b
        /\ ~HasOpener(SubSeq(t, 1, i - 1))

ReturnsWholeObject ==
    /\ extracted.ok
    /\ extracted.kind = "object"
    /\ extracted.canon = Canon(body, FALSE, FALSE)

\* C1 as stated: for any text holding one object whose first field is an
\* array, with any prose or fence around it, the extractor returns the
\* whole object.
C1_AnyTextReturnsObject ==
    (extracted # Pending /\ body \in ArrayFirstObjects) => ReturnsWholeObject

\* C1 amended: when that object lies whole in the text chosen by the fence
\* selection and no { or [ precedes it there, the extractor returns the
\* whole object and never the inner array.
C1_LeadingObjectReturned ==
    (/\ extracted # Pending
     /\ body \in ArrayFirstObjects
     /\ ValueLeads(ChooseText(InputText), body))
        => ReturnsWholeObject

\* a fenced object with a language hint, prose before and after, returned whole
C1_Witness ==
    /\ extracted # Pending
    /\ body = BodyTags
    /\ pre = FENCE \o <<"j", "s", "o", "n">>
    /\ post = <<"\n">> \o FENCE
    /\ ValueLeads(ChooseText(InputText), body)
    /\ ReturnsWholeObject

PlainText == pre \o Plain(body) \o post

\* C2 as stated: for a value whose strings hold { } [ ] or escaped quotes
\* the located span is that of the value with those characters replaced
\* by letters, whatever surrounds the value.
C2_SpanUnaffectedAnywhere ==
    (span # Pending /\ body \in StringyBodies)
        => span = FindSpan(ChooseText(PlainText))

\* C2 amended: the same, for a scan that starts at the value's opening
\* bracket (no { or [ precedes the value in the chosen text).
C2_SpanUnaffected ==
    (/\ span # Pending
     /\ body \in StringyBodies
     /\ ValueLeads(ChooseText(InputText), body))
        => span = FindSpan(ChooseText(PlainText))

\* a value with brackets and an escaped quote in its strings, followed by
\* closers, whose span ends at its own closing brace
C2_Witness ==
    /\ span # Pending
    /\ body = BodyEscapes
    /\ pre = <<"x", " ">>
    /\ post = <<"]", "}">>
    /\ span.ok /\ span.start = 3 /\ span.end = 2 + Len(body)

(***************************************************************************)
(* Claims about _sanitize_matches and the fallback, under SpecSanitize     *)
(***************************************************************************)
Ids(list) == [i \in 1..Len(list) |-> list[i].id]

\* C3: with allow_reuse false no two returned records share a non-null
\* material id, for every candidate list and every max_material_id.
C3_NoSharedId ==
    (Returned(out) /\ ~allow_reuse)
        => \A i, j \in 1..Len(out.list) :
              (i < j /\ out.list[i].id # None) => out.list[i].id # out.list[j].id

\* the same in-range id asked for twice, the second demoted to null
C3_Witness ==
    /\ Returned(out) /\ ~allow_reuse /\ max_material_id = 1
    /\ matches.items = <<Dict(IntV(1), IntV(1), Zoom),
                         Dict(StrV(<<" ", "2", " ">>), StrV(<<" ", "1">>),
                              StrV(<<" ", "zoom", " ">>))>>
    /\ Ids(out.list) = <<IntV(1), None>>

\* C4 as stated: every returned transition is a member of the
\* allowed_transitions list that was passed.
C4_TransitionInAllowed ==
    Returned(out)
        => \A i \in 1..Len(out.list) : InList(out.list[i].transition, allowed_transitions)

\* the candidates of matches.items that _sanitize_matches keeps
Kept(ms) == SelectSeq(ms, LAMBDA m : m.t = "dict" /\ PyInt(Get(m.srt_idx)).ok)

\* C4 amended: every returned transition is an exact (trimmed) member of
\* allowed_transitions or the fixed default; so it is a member whenever the
\* list holds the default, as ALLOWED_TRANSITIONS does, and a raw value
\* that is no member is returned only when it is the default's name.
C4_TransitionInAllowedOrDefault ==
    Returned(out)
        => /\ \A i \in 1..Len(out.list) :
                \/ InList(out.list[i].transition, allowed_transitions)
                \/ out.list[i].transition = DEFAULT_TRANSITION
           /\ InList(DEFAULT_TRANSITION, allowed_transitions)
                => \A i \in 1..Len(out.list) :
                       InList(out.list[i].transition, allowed_transitions)

\* a padded member is kept trimmed, a garbage name becomes the default
C4_Witness ==
    /\ Returned(out) /\ allowed_transitions = ALLOWED_TRANSITIONS
    /\ matches.items = <<Dict(StrV(<<" ", "2", " ">>), StrV(<<" ", "1">>),
                              StrV(<<" ", "zoom", " ">>)),
                         Dict(IntV(2), IntV(-1), StrV(<<"?", "?">>))>>
    /\ [i \in 1..2 |-> out.list[i].transition] = << <<"zoom">>, DEFAULT_TRANSITION >>

\* C5: when the fallback applies with n >= 1 materials, the record at
\* 0-based position i gets id i mod n in reuse mode, and otherwise id i when
\* i < n and null when i >= n; so three all-null records with two
\* materials get [0, 1, null] without reuse and [0, 1, 0] with reuse.
C5_FallbackIds ==
    (final # Pending /\ FallbackApplies(out.list, MaterialCount))
        => /\ Len(final.list) = Len(out.list)
           /\ \A p \in 0..(Len(final.list) - 1) :
                final.list[p + 1].id =
                    IF allow_reuse THEN IntV(p % MaterialCount)
                    ELSE IF p < MaterialCount THEN IntV(p) ELSE None
           /\ (Len(out.list) = 3 /\ MaterialCount = 2)
                => Ids(final.list) = IF allow_reuse THEN <<IntV(0), IntV(1), IntV(0)>>
                                     ELSE <<IntV(0), IntV(1), None>>

\* three captions, two materials, every id null, no reuse: [0, 1, null]
C5_Witness ==
    /\ final # Pending /\ ~allow_reuse /\ MaterialCount = 2
    /\ Len(out.list) = 3 /\ FallbackApplies(out.list, MaterialCount)
    /\ Ids(final.list) = <<IntV(0), IntV(1), None>>

(***************************************************************************)
(* Claims about the caption time codec, under SpecCodec                    *)
(***************************************************************************)
HourField == SplitOn(tstr, ":")[1]

\* C10 as stated: for every well-formed H:MM:SS,mmm string, of any hour
\* width, formatting the parsed value gives the string back.
C10_RoundTripAnyWidth ==
    formatted # Pending => formatted.text = tstr

\* C10 amended: the round trip holds when the hour field has exactly two
\* digits, or more than two digits and no leading zero.
C10_RoundTripCanonicalHour ==
    (/\ formatted # Pending
     /\ \/ Len(HourField) = 2
        \/ Len(HourField) > 2 /\ HourField[1] # "0")
        => formatted.text = tstr

\* 109:59:59,999 parsed and formatted back
C10_Witness ==
    /\ formatted # Pending
    /\ tstr = <<"1", "0", "9", ":", "5", "9", ":", "5", "9", ",", "9", "9", "9">>
    /\ seconds = TimeValue(395999, 999)
    /\ formatted.text = tstr

(***************************************************************************)
(* The per-file cache                                                      *)
(***************************************************************************)

HitAhead ==
    /\ pc = "loop" /\ todo # <<>>
    /\ IsFresh(cache[Head(todo)], force, Probe(Head(todo)))

\* C8: a lookup without force that finds a stored modification time equal
\* to the probe returns the stored kind, duration, tags and description,
\* invokes neither the proxy generator nor the model, and writes neither
\* the mapping in memory nor the cache file.
C8_HitServesStored ==
    [][(HitAhead /\ todo' # todo) =>
        /\ Len(results') = Len(results) + 1
        /\ LET r == results'[Len(results')]
               c == cache[Head(todo)]
           IN  /\ r.path = Head(todo)
               /\ r.kind = c.kind /\ r.duration = c.duration
               /\ r.tags = c.tags /\ r.desc = c.desc
        /\ pc' = "loop" /\ proxies' = proxies /\ computes' = computes
        /\ cache' = cache /\ cache_file' = cache_file /\ written' = written]_vars

\* a second run has served two described materials from the cache
C8_Witness ==
    /\ runs = 2 /\ pc = "idle" /\ Len(results) = 2
    /\ results[1].path # results[2].path
    /\ \A i \in 1..2 :
            /\ results[i].tags = Described.tags /\ results[i].desc = Described.desc
            /\ lookups[results[i].path] = 2 /\ computes[results[i].path] = 1

\* C9 as stated: wherever the process is killed, the write included, the
\* cache file still holds every entry that was completely written before;
\* only the entry of the material in hand can be lost.
C9_CrashKeepsCompleted ==
    pc = "idle" =>
        \A p \in Paths \ InFlight :
            written[p] # NoEntry =>
                cache_file.kind = "json" /\ cache_file.map[p] = written[p]

(***************************************************************************)
(* The matching phase                                                      *)
(***************************************************************************)

\* C6 as stated: a call of the matching phase that returns a list, for at
\* least one caption and at least one material, returns a list with at
\* least one record whose id is not null, whatever the model answered.
C6_ReturnedListUsable ==
    (/\ match_pc = "idle" /\ Returned(returned)
     /\ match_args.subs >= 1 /\ match_args.materials >= 1)
        => \E i \in 1..Len(returned.list) : returned.list[i].id # None

(***************************************************************************)
(* parse_srt_content, under SpecSrt                                        *)
(***************************************************************************)

\* C11 as stated: parse_srt_content never fails the whole input; a time
\* value that cannot be parsed becomes 0.0 and the other blocks are still
\* returned.
C11_NeverFails == srt_pc # "raised"

(***************************************************************************)
(* Failures of the two phases                                              *)
(***************************************************************************)

\* C12 as stated: when the matching phase fails on an unparsable response
\* or on a top-level value that is no list, the raw response has been
\* written to the diagnostic file before the error is raised.
C12_RawSavedOnFailure ==
    (match_pc = "idle" /\ returned \in {RuntimeErrorParse, RuntimeErrorNotList})
        => raw_file

\* a run of the descriptive phase that ended before its last material
Aborted == pc = "idle" /\ todo # <<>>

\* C13 as stated: no failure while a material is analyzed, proxy generation
\* included, ends the run of the descriptive phase.
C13_RunNeverAborts == ~Aborted

(***************************************************************************)
(* Failure kinds of _extract_json_from_text, under SpecExtract             *)
(***************************************************************************)
EmptyInput == Strip(InputText) = <<>>

\* the cause of the failure, as the spec counts causes
CauseOf ==
    IF EmptyInput THEN "empty response"
    ELSE IF ~span.ok THEN span.err
    ELSE "JSONDecodeError"

\* C14 as stated: each failing input reports the kind of its cause (empty
\* input, no opening bracket, unterminated structure, parse error), and an
\* input without an opening bracket never yields a value.
C14_FailureKindOfCause ==
    extracted # Pending =>
        /\ ~extracted.ok => extracted.err = CauseOf
        /\ (~EmptyInput /\ FirstOpener(ChooseText(InputText)) = 0) => ~extracted.ok

(***************************************************************************)
(* The matching phase over runs that share a cache directory               *)
(***************************************************************************)
NoSharedId(list) ==
    \A a, b \in 1..Len(list) :
        (a # b /\ list[a].id # None) => list[a].id # list[b].id

\* C15 as stated: a call with allow_reuse false never returns two records
\* with the same non-null material id, whatever calls came before it in
\* the same cache directory.
C15_NoSharedIdAcrossRuns ==
    (match_pc = "idle" /\ Returned(returned) /\ ~match_args.allow_reuse)
        => NoSharedId(returned.list)

(***************************************************************************)
(* run_gemini_cli, under SpecBridge                                        *)
(***************************************************************************)
\* the attempts after which another attempt was started
Retried == {k \in 1..Len(attempts_made) : k < Len(attempts_made)}

\* C16 as stated: a further attempt starts only after a non-zero exit with
\* a capacity signature; a timeout, any other non-zero exit and any zero
\* exit end the call.
C16_OnlyCapacityRetries ==
    \A k \in Retried : attempts_made[k] = "capacity"

\* C16 amended: a further attempt starts only after a non-zero exit with a
\* capacity signature or, in the json format, after a zero exit whose
\* response carries a bootstrap marker; a timeout, any other non-zero exit
\* and any other zero exit end the call.
C16_CapacityOrBootstrapRetries ==
    \A k \in Retried :
        \/ attempts_made[k] = "capacity"
        \/ attempts_made[k] = "bootstrap" /\ output_format = "json"

\* a capacity failure, then a bootstrap message, then the answer
C16_Witness ==
    /\ bridge_pc = "returned"
    /\ attempts_made = <<"capacity", "bootstrap", "answer">>

Over == bridge_pc \in {"returned", "GeminiCliError", "TimeoutExpired"}

\* C17: a call makes at most 3 attempts; the waits before retries are 5
\* seconds, then three times the wait before, never more than 60; after a
\* third attempt the call is over, with GeminiCliError when that attempt
\* failed with a capacity signature.
C17_BoundedAttempts ==
    /\ Len(attempts_made) <= max_attempts
    /\ \A k \in 1..Len(waits) :
            /\ waits[k] <= SleepCeiling
            /\ waits[k] = IF k = 1 THEN InitialSleep ELSE SleepFactor * waits[k - 1]
    /\ Len(waits) < max_attempts
    /\ Len(attempts_made) = max_attempts =>
            /\ Over
            /\ attempts_made[max_attempts] = "capacity" => bridge_pc = "GeminiCliError"

\* three capacity failures with waits of 5 and 15 seconds between them
C17_Witness ==
    /\ attempts_made = <<"capacity", "capacity", "capacity">>
    /\ waits = <<5, 15>>
    /\ bridge_pc = "GeminiCliError"

\* the calls of the material in hand on which the detector answered yes
FlaggedCalls == {k \in 1..Len(model_calls) : model_calls[k].flagged}

\* C18: whenever the metadata detector flags a material's response, the
\* stage makes exactly one more call, without the forced model, and the
\* material's tags and description are what that call's response gives
\* (nothing when the call fails or its response holds no JSON); the
\* detector flags at most one response of a material.
C18_FlagRetriedOnce ==
    /\ Cardinality(FlaggedCalls) <= 1
    /\ \A k \in FlaggedCalls :
          \/ stage = "flag_retry" /\ Len(model_calls) = k
          \/ /\ stage = "done" /\ Len(model_calls) = k + 1
             /\ ~model_calls[k + 1].forced
             /\ outcome = ContentOf(model_calls[k + 1].response)

C18_Witness ==
    /\ stage = "done" /\ FlaggedCalls # {}
    /\ model_calls[Len(model_calls)].response = "metadata"
    /\ outcome = MetaLike

\* the run in hand has returned its results (Return, not an abort)
RunReturned == pc = "idle" /\ todo = <<>> /\ runs > 0

\* C19 for the runs that return: such a run gives one record per input
\* path, in input order, the record at position i (counted from 0)
\* carrying id i, whether the
\* records came from hits, from computed entries or from degraded materials.
C19_OneRecordPerPath ==
    RunReturned =>
        /\ Len(results) = Len(material_paths)
        /\ \A k \in 1..Len(results) :
              results[k].path = material_paths[k] /\ results[k].id = k - 1

\* a second run over two materials returned: the first served from the
\* entry the first run stored, the second degraded by its model stage
C19_Witness ==
    /\ RunReturned /\ runs = 2 /\ Len(material_paths) = 2
    /\ ~forced[material_paths[1]]
    /\ lookups[material_paths[1]] = 2 /\ computes[material_paths[1]] = 1
    /\ results[1].desc # <<>> /\ results[2].desc = <<>>
    /\ material_paths[1] # material_paths[2]

\* the text the scan ran on
Scanned == ChooseText(InputText)

\* the closers of the returned span that stand outside string literals
SpanClosers ==
    {i \in span.start..span.end :
        /\ Scanned[i] \in {"}", "]"}
        /\ ~ScanState(Scanned, span.start, i - 1).in_str}

\* those of them that are not the closer the stack expects
SkippedClosers ==
    {i \in SpanClosers :
        LET stack == ScanState(Scanned, span.start, i - 1).stack
        IN  stack = <<>> \/ Scanned[i] # stack[Len(stack)]}

\* a returned span starts at the first opener of the chosen text and ends
\* at the first position where the stack of expected closers is empty
SpanStartsAndEnds ==
    /\ span.start = FirstOpener(Scanned)
    /\ ScanState(Scanned, span.start, span.end).stack = <<>>
    /\ \A i \in span.start..(span.end - 1) :
          ScanState(Scanned, span.start, i).stack # <<>>

IndexCoercible(m) == m.t = "dict" /\ PyInt(Get(m.srt_idx)).ok

\* the candidate's material id is absent, null, refused by int(), negative
\* or above max_material_id
BadId(m) ==
    \/ Get(m.id) = None
    \/ ~PyInt(Get(m.id)).ok
    \/ PyInt(Get(m.id)).v < 0
    \/ PyInt(Get(m.id)).v > max_material_id

\* C21: the output is the input-order subsequence of the candidates that
\* are records with a coercible caption index, each with that index as
\* int() gives it; a candidate of it whose material id is absent, not
\* coercible, negative or above max_material_id is kept with id null, and
\* no candidate is dropped for its material id.
C21_DropsOnlyBadIndex ==
    Returned(out) =>
        LET kept == SelectSeq(matches.items, IndexCoercible)
        IN  /\ Len(out.list) = Len(kept)
            /\ \A k \in 1..Len(kept) :
                  /\ out.list[k].srt_idx = PyInt(Get(kept[k].srt_idx)).v
                  /\ BadId(kept[k]) => out.list[k].id = None

\* a candidate that is no record and one with a bad index are dropped, one
\* with an id that is no integer is kept with id null
C21_Witness ==
    /\ Returned(out)
    /\ matches.items = <<IntV(7), Dict(StrV(<<"x">>), IntV(0), Zoom),
                         Dict(IntV(4), StrV(<<"x">>), Zoom)>>
    /\ out.list = <<[srt_idx |-> 4, id |-> None, transition |-> <<"zoom">>]>>

\* the in-range id a candidate carries, null when it carries none
Carried(m) == IF BadId(m) THEN None ELSE IntV(PyInt(Get(m.id)).v)

\* C22: without reuse, the record that keeps an in-range id k comes from
\* the earliest kept candidate carrying k, and every later candidate
\* carrying k is kept with id null; a candidate dropped for its caption
\* index does not use up its id.  With reuse every candidate keeps the
\* in-range id it carries.
C22_FirstOccurrenceWins ==
    Returned(out) =>
        LET kept == SelectSeq(matches.items, IndexCoercible)
        IN  \A k \in 1..Len(out.list) :
               out.list[k].id =
                   IF allow_reuse \/ \A j \in 1..(k - 1) : Carried(kept[j]) # Carried(kept[k])
                   THEN Carried(kept[k])
                   ELSE None

\* id 0 on a dropped candidate, then on two kept ones: the first kept one
\* has it, the second is demoted
C22_Witness ==
    /\ Returned(out) /\ ~allow_reuse /\ max_material_id = 1
    /\ matches.items = <<Dict(StrV(<<"x">>), IntV(0), Zoom),
                         Dict(FloatV(25), FloatV(5), StrV(<<"dissolve">>)),
                         Dict(IntV(1), IntV(0), Zoom)>>
    /\ Ids(out.list) = <<IntV(0), None>>

\* the sanitized list is not empty, a material exists, every id is null
AllNull == out.list # <<>> /\ MaterialCount >= 1 /\ Ids(out.list) = [i \in 1..Len(out.list) |-> None]

\* C23: the fallback replaces the assignments exactly when the sanitized
\* list is not empty, at least one material exists and every sanitized id
\* is null; in every other case the records are returned as sanitized.
C23_FallbackIffAllNull ==
    final # Pending =>
        /\ AllNull => (final.list[1].id = IntV(0) /\ Ids(final.list) # Ids(out.list))
        /\ ~AllNull => final.list = out.list

\* one id kept and one null with two materials: returned as sanitized
C23_Witness ==
    /\ final # Pending /\ MaterialCount = 2 /\ ~allow_reuse
    /\ Ids(out.list) = <<IntV(1), None>>
    /\ final.list = out.list

(***************************************************************************)
(* More claims about the matching phase, under SpecMatch                   *)
(***************************************************************************)
\* the first call in a cache directory returned a list: it was computed,
\* no srt_matches.json being there to serve
FreshlyReturned == match_pc = "idle" /\ match_runs = 1 /\ Returned(returned)

\* C24 as stated: the list a call computes holds exactly one record per
\* caption sent (captions 1..subs): every caption index sent occurs once
\* and no other index occurs.
C24_OneRecordPerCaption ==
    FreshlyReturned =>
        /\ \A c \in 1..match_args.subs :
              Cardinality({k \in 1..Len(returned.list) : returned.list[k].srt_idx = c}) = 1
        /\ \A k \in 1..Len(returned.list) : returned.list[k].srt_idx \in 1..match_args.subs

(***************************************************************************)
(* More claims about the analysis cache, under Spec                        *)
(***************************************************************************)
\* within a run no step removes an entry from the mapping, and only the
\* model stage's store changes one, that of the path in hand
EntriesSuperseded ==
    pc # "idle" =>
        \A p \in Paths :
            /\ cache[p] # NoEntry => cache'[p] # NoEntry
            /\ (pc # "model" \/ p # Head(todo)) => cache'[p] = cache[p]

\* a path leaves the loop on a fresh entry without force, or with its entry
\* holding the modification time its lookup probed
PassedFreshOrStored ==
    (pc # "idle" /\ todo # <<>> /\ todo' = Tail(todo)) =>
        LET p == Head(todo)
        IN  \/ pc = "loop" /\ ~force /\ cache[p] # NoEntry /\ cache[p].mtime = mtime[p]
            \/ pc = "write_data" /\ cache'[p] # NoEntry /\ cache'[p].mtime = probe

\* a compute step that has begun is not left before its entry is stored
ComputeCompletes ==
    pc \in {"proxy", "model", "write_open", "write_data"} => pc' # "idle"

\* C25 as stated: a lookup under force, with a differing stored time or
\* with no entry runs the compute step, which replaces the path's entry by
\* the new result with the probed time; no step of a run removes an entry
\* or changes the entry of another path.
C25_ComputeReplacesEntry ==
    [][EntriesSuperseded /\ PassedFreshOrStored /\ ComputeCompletes]_vars

\* C26: a call of the matching phase that ends in an exception (the model
\* call fails, the response cannot be parsed, its top level is no list)
\* returns no list and leaves srt_matches.json as it was; the file changes
\* only in the step that returns, and then holds the list returned, which
\* is the sanitized list after the fallback.
C26_AbortKeepsMatchFile ==
    [][/\ (match_pc = "call" /\ ~Returned(returned')) => match_file' = match_file
       /\ match_file' # match_file =>
             /\ Returned(returned')
             /\ match_file' = [kind |-> "json", value |-> returned'.list]
      ]_vars

\* a forced second call failed on a non-list answer and the list the first
\* call stored is still there
C26_Witness ==
    /\ match_pc = "idle" /\ match_runs = 2 /\ match_args.force
    /\ returned = RuntimeErrorNotList
    /\ match_file.kind = "json" /\ match_file.value # <<>>

(***************************************************************************)
(* More claims about parse_srt_content, under SpecSrt                      *)
(***************************************************************************)
\* the lines made of digits only that a line holding the separator follows
BlockLines ==
    {k \in 1..Len(srt_lines) :
        /\ AllDigits(srt_lines[k])
        /\ k < Len(srt_lines) /\ \E c \in 1..Len(srt_lines[k + 1]) : srt_lines[k + 1][c] = ARROW}

\* the n-th of them in input order
NthBlockLine(n) ==
    CHOOSE k \in BlockLines : Cardinality({b \in BlockLines : b < k}) = n - 1

\* the first line from j on that is blank or made of digits, or the end
RunEnd(j) ==
    CHOOSE e \in j..(Len(srt_lines) + 1) :
        /\ e = Len(srt_lines) + 1 \/ srt_lines[e] = <<>> \/ AllDigits(srt_lines[e])
        /\ \A x \in j..(e - 1) : srt_lines[x] # <<>> /\ ~AllDigits(srt_lines[x])

\* what the call hands to its caller: the items when it returns, nothing
\* when it raises
Emitted == IF srt_pc = "returned" THEN srt_items ELSE <<>>

\* the items are the segments of the block lines, one each and in order,
\* each with the text of the run after its time line
SegmentPerBlockLine(its) ==
    /\ Len(its) = Cardinality(BlockLines)
    /\ \A n \in 1..Len(its) :
          LET k == NthBlockLine(n)
          IN  /\ its[n].idx = DecimalValue(srt_lines[k])
              /\ its[n].text = Strip(JoinSpace(SubSeq(srt_lines, k + 2, RunEnd(k + 2) - 1)))

\* C27 as stated: every call ends having emitted one segment per line of
\* digits followed by a separator line, in input order, with the text of
\* the run of non-blank, non-integer lines after the time line.
C27_OneSegmentPerBlockLine ==
    srt_pc \in {"returned", "raised"} => SegmentPerBlockLine(Emitted)

\* the same for the calls that return
C27_ReturnedSegments ==
    srt_pc = "returned" => SegmentPerBlockLine(srt_items)

\* the loop index strictly increases, a block resuming at the line that
\* ended its run of text
C27_IndexIncreases ==
    [][srt_i' # srt_i =>
          /\ srt_i' > srt_i
          /\ srt_i \in BlockLines => srt_i' = RunEnd(srt_i + 2)]_vars

\* the entry of path p is that of a degraded analysis, stored with the
\* modification time p has now
DegradedFresh(p) ==
    cache[p] # NoEntry /\ cache[p].tags = <<>> /\ cache[p].desc = <<>>
        /\ cache[p].mtime = mtime[p]

\* C28: a degraded analysis is stored like a successful one, under the
\* path with the probed modification time and empty tags and description,
\* and written to the file; a later lookup without force that finds it with
\* the modification time unchanged appends the empty record and goes on to
\* the next path, no compute step and so no model call being made.
C28_DegradedIsCached ==
    [][/\ (pc = "write_data" /\ analysis = Degraded) =>
             /\ cache_file' = FileJson(cache)
             /\ cache[Head(todo)].mtime = probe
             /\ cache[Head(todo)].tags = <<>> /\ cache[Head(todo)].desc = <<>>
       /\ (/\ pc = "loop" /\ todo # <<>> /\ ~force
           /\ DegradedFresh(Head(todo)) /\ mtime' = mtime) =>
             /\ pc' = "loop" /\ todo' = Tail(todo)
             /\ computes' = computes
             /\ results' = Append(results,
                    [id |-> Len(results), path |-> Head(todo),
                     kind |-> cache[Head(todo)].kind,
                     duration |-> cache[Head(todo)].duration,
                     desc |-> <<>>, tags |-> <<>>])
      ]_vars

\* a second run without force returned the empty record of a material the
\* first run had degraded, the material computed once in all
C28_Witness ==
    /\ RunReturned /\ runs = 2 /\ ~force /\ material_paths # <<>>
    /\ LET p == material_paths[1]
       IN  /\ DegradedFresh(p) /\ ~forced[p]
           /\ computes[p] = 1 /\ lookups[p] = 2
           /\ results[1].tags = <<>> /\ results[1].desc = <<>>

\* every id of the list is null or an integer of 0..n-1
IdsInRange(list, n) ==
    \A k \in 1..Len(list) :
        list[k].id = None \/ (list[k].id.t = "int" /\ list[k].id.v \in 0..(n - 1))

\* C29: in a computed matching result every id that is not null lies in
\* 0..material_count-1, after the sanitizer and after the fallback, in both
\* reuse modes; with no material every id is null.
C29_IdsInRange ==
    /\ Returned(out) => IdsInRange(out.list, MaterialCount)
    /\ final # Pending =>
          /\ IdsInRange(final.list, MaterialCount)
          /\ MaterialCount = 0 => \A k \in 1..Len(final.list) : final.list[k].id = None

\* three captions for two materials, every id out of range or missing: the
\* sanitizer leaves no id and the fallback hands out 0, 1 and null
C29_Witness ==
    /\ final # Pending /\ MaterialCount = 2 /\ ~allow_reuse
    /\ matches.items = <<Dict(IntV(1), IntV(2), Zoom), Dict(IntV(2), IntV(-1), StrV(<<"?", "?">>)),
                         Dict(IntV(3), Absent, Absent)>>
    /\ Ids(out.list) = <<None, None, None>>
    /\ Ids(final.list) = <<IntV(0), IntV(1), None>>

(***************************************************************************)
(* The records of a run, under Spec                                        *)
(***************************************************************************)
\* what the run in hand handed to its caller: the records when it
\* returned, nothing when it was left by an exception
Handed == IF todo = <<>> THEN results ELSE <<>>

\* C19 as stated: every run that has ended has handed its caller one record
\* per input path, in input order, the record at position i carrying id i,
\* whatever happened to the materials on the way.
C19_EveryRunGivesAllRecords ==
    (pc = "idle" /\ runs > 0) =>
        /\ Len(Handed) = Len(material_paths)
        /\ \A k \in 1..Len(Handed) :
              Handed[k].path = material_paths[k] /\ Handed[k].id = k - 1

====
